---- MODULE Spec2Model ----
(***************************************************************************)
(* A model of the rust-tuf trust store (src/src/tuf.rs, struct Tuf) and of *)
(* the signature check of signed metadata (src/src/metadata.rs,            *)
(* SignedMetadata::verify).                                                *)
(*                                                                         *)
(* The trust store is the variable `tuf`, a record with the fields of      *)
(* struct Tuf.  Every public operation of Tuf is an operator that maps the *)
(* store, its arguments and the clock to the store after the call and the  *)
(* value returned; the action of that operation applies the operator to an *)
(* input drawn from a bounded set and records the call in `call` and the   *)
(* store at entry in `pre`.  The caller then takes the result (Return).    *)
(*                                                                         *)
(* The client (src/src/client.rs, struct Client) is the variable `client`: *)
(* its remote and local repositories, the step of Client::update it is at, *)
(* the calls it made and the results of the steps; its trust store is      *)
(* `tuf`.  Each step of Client::update is one action.                      *)
(***************************************************************************)
EXTENDS Integers, Sequences, FiniteSets, TLC

VARIABLES
    tuf,        \* struct Tuf: the trusted metadata
    now,        \* Utc::now()
    pc,         \* "idle": no call in progress; "returned": a call just returned
    call,       \* the last call: operation, arguments, returned value
    pre,        \* the trust store at entry of the last call
    v_sigs,     \* SignedMetadata::verify: self.signatures
    v_threshold,\* SignedMetadata::verify: threshold
    v_keys,     \* SignedMetadata::verify: authorized_keys
    v_result,   \* SignedMetadata::verify: returned value
    client,     \* struct Client: the repositories and the progress of Client::update
    signed,     \* SignedMetadata: the signatures and the keys that signed
    m_arg,      \* the argument of a constructor of metadata.rs
    m_ret,      \* the value the constructor returned
    promoted_snapshot \* history: the highest snapshot version promoted since a root was last accepted

tufVars == <<tuf, now, pc, call, pre>>
verifyVars == <<v_sigs, v_threshold, v_keys, v_result>>
metadataVars == <<signed, m_arg, m_ret>>
vars == <<tuf, now, pc, call, pre, v_sigs, v_threshold, v_keys, v_result, client, metadataVars, promoted_snapshot>>

----------------------------------------------------------------------------
(* Bounds *)

\* metadata versions range over 1..MaxVersion
MaxVersion == 2
\* the clock runs from 0 to MaxTime
MaxTime == 1
\* longest signature list given to SignedMetadata::verify
MaxSigs == 3

----------------------------------------------------------------------------
(* Option<T>: None is the empty sequence, Some(x) the sequence of x alone *)

None == <<>>
Some(x) == <<x>>
is_some(o) == o # <<>>
is_none(o) == o = <<>>
unwrap(o) == o[1]

----------------------------------------------------------------------------
(* Results: Result<T> values returned by the operations *)

OkTrue == "Ok(true)"
OkFalse == "Ok(false)"
OkNone == "Ok(None)"
OkSome == "Ok(Some)"
VerificationFailure == "Err(VerificationFailure)"
TargetUnavailable == "Err(TargetUnavailable)"
ExpiredMetadata(role) == "Err(ExpiredMetadata(" \o role \o "))"
MissingMetadata(role) == "Err(MissingMetadata(" \o role \o "))"

RoleNames == {"Root", "Snapshot", "Targets", "Timestamp"}

Errors ==
    {VerificationFailure, TargetUnavailable}
        \cup {ExpiredMetadata(r) : r \in RoleNames}
        \cup {MissingMetadata(r) : r \in RoleNames}

IsErr(r) == r \in Errors

----------------------------------------------------------------------------
(* Keys, signatures and signed metadata *)

\* a public key is identified with its KeyId
KeyIds == {"K0", "K1"}

\* RoleDefinition::new: threshold >= 1, key_ids not empty, |key_ids| >= threshold
RoleDefinition(threshold, key_ids) == [threshold |-> threshold, key_ids |-> key_ids]

\* RawSignedMetadata: the key ids whose signature over the metadata is valid,
\* and the metadata they sign
Raw(signatures, metadata) == [signatures |-> signatures, metadata |-> metadata]

\* verify::verify_signatures: the metadata is accepted iff at least
\* `threshold` distinct authorized keys signed it
verify_signatures(raw, threshold, keys) ==
    /\ raw.signatures # {}
    /\ threshold >= 1
    /\ Cardinality(raw.signatures \cap keys) >= threshold

\* the public keys of `root.keys` that a role definition of the root lists
role_keys(root, definition) == {k \in root.keys : k \in definition.key_ids}

root_keys(root) == role_keys(root, root.root)
snapshot_keys(root) == role_keys(root, root.snapshot)
targets_keys(root) == role_keys(root, root.targets)
timestamp_keys(root) == role_keys(root, root.timestamp)

----------------------------------------------------------------------------
(* struct Tuf and its private accessors *)

\* MetadataPath::from_role(&Role::Targets)
TargetsPath == "targets"

\* HashMap::get
get(map, key) == IF key \in DOMAIN map THEN Some(map[key]) ELSE None

\* HashMap::new, HashMap::insert, HashMap::remove
EmptyMap == [k \in {} |-> 0]
insert(map, key, value) ==
    [k \in DOMAIN map \cup {key} |-> IF k = key THEN value ELSE map[k]]
remove(map, keys) == [k \in DOMAIN map \ keys |-> map[k]]

\* Option<Metadata>::map(|t| t.version()).unwrap_or(0)
version_or_0(o) == IF is_some(o) THEN unwrap(o).version ELSE 0

trusted_timestamp_version(t) == version_or_0(t.trusted_timestamp)
trusted_snapshot_version(t) == version_or_0(t.trusted_snapshot)
trusted_targets_version(t) == version_or_0(t.trusted_targets)
trusted_delegation_version(t, role) == version_or_0(get(t.trusted_delegations, role))

\* the value an operation returns together with the store it leaves
Ret(t, result) == [tuf |-> t, result |-> result]

\* Tuf::from_trusted_root: the root verified against its own root role
from_trusted_root(raw_root) ==
    IF ~verify_signatures(raw_root, raw_root.metadata.root.threshold,
                          root_keys(raw_root.metadata))
    THEN None
    ELSE Some([trusted_root |-> raw_root.metadata,
               trusted_snapshot |-> None,
               trusted_targets |-> None,
               trusted_timestamp |-> None,
               trusted_delegations |-> EmptyMap])

\* a purge that forgets the top-level metadata but keeps the delegations
purge_metadata_keeps_delegations(t) ==
    [t EXCEPT !.trusted_snapshot = None,
              !.trusted_targets = None,
              !.trusted_timestamp = None]

purge_metadata(t) ==
    [t EXCEPT !.trusted_snapshot = None,
              !.trusted_targets = None,
              !.trusted_timestamp = None,
              !.trusted_delegations = EmptyMap]

trusted_root_unexpired(t, n) ==
    IF t.trusted_root.expires <= n THEN ExpiredMetadata("Root") ELSE "Ok"

\* an accessor that reports a missing snapshot under the name of another role
trusted_snapshot_unexpired_as_targets(t, n) ==
    IF is_some(t.trusted_snapshot)
    THEN IF unwrap(t.trusted_snapshot).expires <= n
         THEN ExpiredMetadata("Snapshot") ELSE "Ok"
    ELSE MissingMetadata("Targets")

trusted_snapshot_unexpired(t, n) ==
    IF is_some(t.trusted_snapshot)
    THEN IF unwrap(t.trusted_snapshot).expires <= n
         THEN ExpiredMetadata("Snapshot") ELSE "Ok"
    ELSE MissingMetadata("Snapshot")

trusted_targets_unexpired(t, n) ==
    IF is_some(t.trusted_targets)
    THEN IF unwrap(t.trusted_targets).expires <= n
         THEN ExpiredMetadata("Targets") ELSE "Ok"
    ELSE MissingMetadata("Targets")

trusted_timestamp_unexpired(t, n) ==
    IF is_some(t.trusted_timestamp)
    THEN IF unwrap(t.trusted_timestamp).expires <= n
         THEN ExpiredMetadata("Timestamp") ELSE "Ok"
    ELSE MissingMetadata("Timestamp")

----------------------------------------------------------------------------
(* Tuf::update_root *)

\* an update_root that promotes a root of the trusted version again
update_root_promotes_equal(t, raw_root) ==
    LET trusted_root == t.trusted_root
        new_root == raw_root.metadata
    IN  IF ~verify_signatures(raw_root, trusted_root.root.threshold,
                              root_keys(trusted_root))
        THEN Ret(t, VerificationFailure)
        ELSE IF ~verify_signatures(raw_root, new_root.root.threshold,
                                   root_keys(new_root))
        THEN Ret(t, VerificationFailure)
        ELSE IF new_root.version < trusted_root.version
        THEN Ret(t, VerificationFailure)
        ELSE Ret([purge_metadata(t) EXCEPT !.trusted_root = new_root], OkTrue)

\* an update_root that asks for the signatures of the new root's keys only
update_root_self_signed(t, raw_root) ==
    LET trusted_root == t.trusted_root
        new_root == raw_root.metadata
    IN  IF ~verify_signatures(raw_root, new_root.root.threshold,
                              root_keys(new_root))
        THEN Ret(t, VerificationFailure)
        ELSE IF new_root.version = trusted_root.version
        THEN Ret(t, OkFalse)
        ELSE IF new_root.version < trusted_root.version
        THEN Ret(t, VerificationFailure)
        ELSE Ret([purge_metadata(t) EXCEPT !.trusted_root = new_root], OkTrue)

\* an update_root without the comparison against the trusted version
update_root_any_version(t, raw_root) ==
    LET trusted_root == t.trusted_root
        new_root == raw_root.metadata
    IN  IF ~verify_signatures(raw_root, trusted_root.root.threshold,
                              root_keys(trusted_root))
        THEN Ret(t, VerificationFailure)
        ELSE IF ~verify_signatures(raw_root, new_root.root.threshold,
                                   root_keys(new_root))
        THEN Ret(t, VerificationFailure)
        ELSE IF new_root.version = trusted_root.version
        THEN Ret(t, OkFalse)
        ELSE Ret([purge_metadata(t) EXCEPT !.trusted_root = new_root], OkTrue)

update_root(t, raw_root) ==
    LET trusted_root == t.trusted_root
        new_root == raw_root.metadata
    IN  IF ~verify_signatures(raw_root, trusted_root.root.threshold,
                              root_keys(trusted_root))
        THEN Ret(t, VerificationFailure)
        ELSE IF ~verify_signatures(raw_root, new_root.root.threshold,
                                   root_keys(new_root))
        THEN Ret(t, VerificationFailure)
        ELSE IF new_root.version = trusted_root.version
        THEN Ret(t, OkFalse)
        ELSE IF new_root.version < trusted_root.version
        THEN Ret(t, VerificationFailure)
        ELSE Ret([purge_metadata(t) EXCEPT !.trusted_root = new_root], OkTrue)

----------------------------------------------------------------------------
(* Tuf::update_timestamp *)

\* an update_timestamp without the rollback check
update_timestamp_any_version(t, raw_timestamp, n) ==
    LET trusted_root == t.trusted_root
        new_timestamp == raw_timestamp.metadata
        forgot == IF trusted_snapshot_version(t) # new_timestamp.snapshot.version
                  THEN [t EXCEPT !.trusted_snapshot = None]
                  ELSE t
    IN  IF ~verify_signatures(raw_timestamp, trusted_root.timestamp.threshold,
                              timestamp_keys(trusted_root))
        THEN Ret(t, VerificationFailure)
        ELSE IF new_timestamp.version = trusted_timestamp_version(t)
        THEN Ret(t, OkNone)
        ELSE IF new_timestamp.expires <= n
        THEN Ret(forgot, ExpiredMetadata("Timestamp"))
        ELSE Ret([forgot EXCEPT !.trusted_timestamp = Some(new_timestamp)], OkSome)

\* an update_timestamp that takes a timestamp expiring right now as fresh
update_timestamp_expires_before(t, raw_timestamp, n) ==
    LET trusted_root == t.trusted_root
        new_timestamp == raw_timestamp.metadata
        forgot == IF trusted_snapshot_version(t) # new_timestamp.snapshot.version
                  THEN [t EXCEPT !.trusted_snapshot = None]
                  ELSE t
    IN  IF ~verify_signatures(raw_timestamp, trusted_root.timestamp.threshold,
                              timestamp_keys(trusted_root))
        THEN Ret(t, VerificationFailure)
        ELSE IF new_timestamp.version < trusted_timestamp_version(t)
        THEN Ret(t, VerificationFailure)
        ELSE IF new_timestamp.version = trusted_timestamp_version(t)
        THEN Ret(t, OkNone)
        ELSE IF new_timestamp.expires < n
        THEN Ret(forgot, ExpiredMetadata("Timestamp"))
        ELSE Ret([forgot EXCEPT !.trusted_timestamp = Some(new_timestamp)], OkSome)

\* an update_timestamp that keeps the trusted snapshot whatever snapshot
\* version the new timestamp declares
update_timestamp_keeps_snapshot(t, raw_timestamp, n) ==
    LET trusted_root == t.trusted_root
        new_timestamp == raw_timestamp.metadata
        trusted_timestamp_version_ == trusted_timestamp_version(t)
    IN  IF ~verify_signatures(raw_timestamp, trusted_root.timestamp.threshold,
                              timestamp_keys(trusted_root))
        THEN Ret(t, VerificationFailure)
        ELSE IF new_timestamp.version < trusted_timestamp_version_
        THEN Ret(t, VerificationFailure)
        ELSE IF new_timestamp.version = trusted_timestamp_version_
        THEN Ret(t, OkNone)
        ELSE IF new_timestamp.expires <= n
        THEN Ret(t, ExpiredMetadata("Timestamp"))
        ELSE Ret([t EXCEPT !.trusted_timestamp = Some(new_timestamp)], OkSome)

update_timestamp(t, raw_timestamp, n) ==
    LET trusted_root == t.trusted_root
        new_timestamp == raw_timestamp.metadata
        trusted_timestamp_version_ == trusted_timestamp_version(t)
        \* the trusted snapshot is forgotten before the expiration check
        forgot == IF trusted_snapshot_version(t) # new_timestamp.snapshot.version
                  THEN [t EXCEPT !.trusted_snapshot = None]
                  ELSE t
    IN  IF ~verify_signatures(raw_timestamp, trusted_root.timestamp.threshold,
                              timestamp_keys(trusted_root))
        THEN Ret(t, VerificationFailure)
        ELSE IF new_timestamp.version < trusted_timestamp_version_
        THEN Ret(t, VerificationFailure)
        ELSE IF new_timestamp.version = trusted_timestamp_version_
        THEN Ret(t, OkNone)
        ELSE IF new_timestamp.expires <= n
        THEN Ret(forgot, ExpiredMetadata("Timestamp"))
        ELSE Ret([forgot EXCEPT !.trusted_timestamp = Some(new_timestamp)], OkSome)

----------------------------------------------------------------------------
(* Tuf::update_snapshot and Tuf::purge_delegations *)

\* a purge that also drops the delegations at the declared version
purge_delegations_at_version(t) ==
    IF is_none(t.trusted_snapshot)
    THEN t
    ELSE LET meta == unwrap(t.trusted_snapshot).meta
             purge == {role \in DOMAIN meta :
                          /\ role \in DOMAIN t.trusted_delegations
                          /\ t.trusted_delegations[role].version >= meta[role].version}
         IN  [t EXCEPT !.trusted_delegations = remove(t.trusted_delegations, purge)]

purge_delegations(t) ==
    IF is_none(t.trusted_snapshot)
    THEN t
    ELSE LET meta == unwrap(t.trusted_snapshot).meta
             purge == {role \in DOMAIN meta :
                          /\ role \in DOMAIN t.trusted_delegations
                          /\ t.trusted_delegations[role].version > meta[role].version}
         IN  [t EXCEPT !.trusted_delegations = remove(t.trusted_delegations, purge)]

\* an update_snapshot that does not compare the version of the new snapshot
\* with the version the trusted timestamp declares
update_snapshot_any_version(t, raw_snapshot, n) ==
    IF IsErr(trusted_root_unexpired(t, n))
    THEN Ret(t, trusted_root_unexpired(t, n))
    ELSE IF IsErr(trusted_timestamp_unexpired(t, n))
    THEN Ret(t, trusted_timestamp_unexpired(t, n))
    ELSE
    LET trusted_root == t.trusted_root
        trusted_timestamp == unwrap(t.trusted_timestamp)
        trusted_snapshot_version_ == trusted_snapshot_version(t)
        new_snapshot == raw_snapshot.metadata
        purged == IF version_or_0(t.trusted_targets)
                        # version_or_0(get(new_snapshot.meta, TargetsPath))
                  THEN [t EXCEPT !.trusted_targets = None]
                  ELSE t
    IN  IF trusted_timestamp.snapshot.version < trusted_snapshot_version_
        THEN Ret(t, VerificationFailure)
        ELSE IF trusted_timestamp.snapshot.version = trusted_snapshot_version_
        THEN Ret(t, OkFalse)
        ELSE IF ~verify_signatures(raw_snapshot, trusted_root.snapshot.threshold,
                                   snapshot_keys(trusted_root))
        THEN Ret(t, VerificationFailure)
        ELSE IF new_snapshot.version < trusted_snapshot_version_
        THEN Ret(t, VerificationFailure)
        ELSE Ret(purge_delegations(
                     [purged EXCEPT !.trusted_snapshot = Some(new_snapshot)]),
                 OkTrue)

\* an update_snapshot whose last version test fails for a candidate above
\* the trusted snapshot
update_snapshot_rejects_newer(t, raw_snapshot, n) ==
    IF IsErr(trusted_root_unexpired(t, n))
    THEN Ret(t, trusted_root_unexpired(t, n))
    ELSE IF IsErr(trusted_timestamp_unexpired(t, n))
    THEN Ret(t, trusted_timestamp_unexpired(t, n))
    ELSE
    LET trusted_root == t.trusted_root
        trusted_timestamp == unwrap(t.trusted_timestamp)
        trusted_snapshot_version_ == trusted_snapshot_version(t)
        new_snapshot == raw_snapshot.metadata
        purged == IF version_or_0(t.trusted_targets)
                        # version_or_0(get(new_snapshot.meta, TargetsPath))
                  THEN [t EXCEPT !.trusted_targets = None]
                  ELSE t
    IN  IF trusted_timestamp.snapshot.version < trusted_snapshot_version_
        THEN Ret(t, VerificationFailure)
        ELSE IF trusted_timestamp.snapshot.version = trusted_snapshot_version_
        THEN Ret(t, OkFalse)
        ELSE IF ~verify_signatures(raw_snapshot, trusted_root.snapshot.threshold,
                                   snapshot_keys(trusted_root))
        THEN Ret(t, VerificationFailure)
        ELSE IF new_snapshot.version # trusted_timestamp.snapshot.version
        THEN Ret(t, VerificationFailure)
        ELSE IF new_snapshot.version > trusted_snapshot_version_
        THEN Ret(t, VerificationFailure)
        ELSE Ret(purge_delegations(
                     [purged EXCEPT !.trusted_snapshot = Some(new_snapshot)]),
                 OkTrue)

\* an update_snapshot that keeps the trusted targets whatever version the
\* new snapshot declares for them
update_snapshot_keeps_targets(t, raw_snapshot, n) ==
    IF IsErr(trusted_root_unexpired(t, n))
    THEN Ret(t, trusted_root_unexpired(t, n))
    ELSE IF IsErr(trusted_timestamp_unexpired(t, n))
    THEN Ret(t, trusted_timestamp_unexpired(t, n))
    ELSE
    LET trusted_root == t.trusted_root
        trusted_timestamp == unwrap(t.trusted_timestamp)
        trusted_snapshot_version_ == trusted_snapshot_version(t)
        new_snapshot == raw_snapshot.metadata
    IN  IF trusted_timestamp.snapshot.version < trusted_snapshot_version_
        THEN Ret(t, VerificationFailure)
        ELSE IF trusted_timestamp.snapshot.version = trusted_snapshot_version_
        THEN Ret(t, OkFalse)
        ELSE IF ~verify_signatures(raw_snapshot, trusted_root.snapshot.threshold,
                                   snapshot_keys(trusted_root))
        THEN Ret(t, VerificationFailure)
        ELSE IF new_snapshot.version # trusted_timestamp.snapshot.version
        THEN Ret(t, VerificationFailure)
        ELSE IF new_snapshot.version < trusted_snapshot_version_
        THEN Ret(t, VerificationFailure)
        ELSE Ret(purge_delegations(
                     [t EXCEPT !.trusted_snapshot = Some(new_snapshot)]),
                 OkTrue)

update_snapshot(t, raw_snapshot, n) ==
    IF IsErr(trusted_root_unexpired(t, n))
    THEN Ret(t, trusted_root_unexpired(t, n))
    ELSE IF IsErr(trusted_timestamp_unexpired(t, n))
    THEN Ret(t, trusted_timestamp_unexpired(t, n))
    ELSE
    LET trusted_root == t.trusted_root
        trusted_timestamp == unwrap(t.trusted_timestamp)
        trusted_snapshot_version_ == trusted_snapshot_version(t)
        new_snapshot == raw_snapshot.metadata
        purged == IF version_or_0(t.trusted_targets)
                        # version_or_0(get(new_snapshot.meta, TargetsPath))
                  THEN [t EXCEPT !.trusted_targets = None]
                  ELSE t
    IN  IF trusted_timestamp.snapshot.version < trusted_snapshot_version_
        THEN Ret(t, VerificationFailure)
        ELSE IF trusted_timestamp.snapshot.version = trusted_snapshot_version_
        THEN Ret(t, OkFalse)
        ELSE IF ~verify_signatures(raw_snapshot, trusted_root.snapshot.threshold,
                                   snapshot_keys(trusted_root))
        THEN Ret(t, VerificationFailure)
        ELSE IF new_snapshot.version # trusted_timestamp.snapshot.version
        THEN Ret(t, VerificationFailure)
        ELSE IF new_snapshot.version < trusted_snapshot_version_
        THEN Ret(t, VerificationFailure)
        ELSE Ret(purge_delegations(
                     [purged EXCEPT !.trusted_snapshot = Some(new_snapshot)]),
                 OkTrue)

----------------------------------------------------------------------------
(* Tuf::update_targets *)

\* an update_targets that verifies the new targets against the snapshot role
update_targets_snapshot_keys(t, raw_targets, n) ==
    IF IsErr(trusted_root_unexpired(t, n))
    THEN Ret(t, trusted_root_unexpired(t, n))
    ELSE IF IsErr(trusted_snapshot_unexpired(t, n))
    THEN Ret(t, trusted_snapshot_unexpired(t, n))
    ELSE
    LET trusted_root == t.trusted_root
        trusted_snapshot == unwrap(t.trusted_snapshot)
        trusted_targets_description == get(trusted_snapshot.meta, TargetsPath)
        trusted_targets_version_ == trusted_targets_version(t)
        new_targets == raw_targets.metadata
    IN  IF is_none(trusted_targets_description)
        THEN Ret(t, VerificationFailure)
        ELSE IF unwrap(trusted_targets_description).version < trusted_targets_version_
        THEN Ret(t, VerificationFailure)
        ELSE IF unwrap(trusted_targets_description).version = trusted_targets_version_
        THEN Ret(t, OkFalse)
        ELSE IF ~verify_signatures(raw_targets, trusted_root.snapshot.threshold,
                                   snapshot_keys(trusted_root))
        THEN Ret(t, VerificationFailure)
        ELSE IF new_targets.version # unwrap(trusted_targets_description).version
        THEN Ret(t, VerificationFailure)
        ELSE IF new_targets.expires <= n
        THEN Ret(t, ExpiredMetadata("Snapshot"))
        ELSE Ret([t EXCEPT !.trusted_targets = Some(new_targets)], OkTrue)

update_targets(t, raw_targets, n) ==
    IF IsErr(trusted_root_unexpired(t, n))
    THEN Ret(t, trusted_root_unexpired(t, n))
    ELSE IF IsErr(trusted_snapshot_unexpired(t, n))
    THEN Ret(t, trusted_snapshot_unexpired(t, n))
    ELSE
    LET trusted_root == t.trusted_root
        trusted_snapshot == unwrap(t.trusted_snapshot)
        trusted_targets_description == get(trusted_snapshot.meta, TargetsPath)
        trusted_targets_version_ == trusted_targets_version(t)
        new_targets == raw_targets.metadata
    IN  IF is_none(trusted_targets_description)
        THEN Ret(t, VerificationFailure)
        ELSE IF unwrap(trusted_targets_description).version < trusted_targets_version_
        THEN Ret(t, VerificationFailure)
        ELSE IF unwrap(trusted_targets_description).version = trusted_targets_version_
        THEN Ret(t, OkFalse)
        ELSE IF ~verify_signatures(raw_targets, trusted_root.targets.threshold,
                                   targets_keys(trusted_root))
        THEN Ret(t, VerificationFailure)
        ELSE IF new_targets.version # unwrap(trusted_targets_description).version
        THEN Ret(t, VerificationFailure)
        ELSE IF new_targets.expires <= n
        THEN Ret(t, ExpiredMetadata("Snapshot"))
        ELSE Ret([t EXCEPT !.trusted_targets = Some(new_targets)], OkTrue)

----------------------------------------------------------------------------
(* Tuf::find_delegation_threshold_and_keys and Tuf::update_delegation *)

\* the index of the first delegation of `roles` that names `role`, 0 if none
first_index(roles, role) ==
    IF \E i \in 1..Len(roles) : roles[i].role = role
    THEN CHOOSE i \in 1..Len(roles) :
            /\ roles[i].role = role
            /\ \A j \in 1..(i - 1) : roles[j].role # role
    ELSE 0

\* a find_delegation_threshold_and_keys that authorizes every key of the
\* parent's delegations, listed by the delegation or not
find_delegation_threshold_and_all_keys(t, parent_role, role) ==
    LET trusted_parent == IF parent_role = TargetsPath
                          THEN t.trusted_targets
                          ELSE get(t.trusted_delegations, parent_role)
    IN  IF is_none(trusted_parent)
        THEN None
        ELSE IF is_none(unwrap(trusted_parent).delegations)
        THEN None
        ELSE LET trusted_delegations == unwrap(unwrap(trusted_parent).delegations)
                 i == first_index(trusted_delegations.roles, role)
             IN  IF i = 0
                 THEN None
                 ELSE Some([threshold |-> trusted_delegations.roles[i].threshold,
                            keys |-> trusted_delegations.keys])

find_delegation_threshold_and_keys(t, parent_role, role) ==
    LET trusted_parent == IF parent_role = TargetsPath
                          THEN t.trusted_targets
                          ELSE get(t.trusted_delegations, parent_role)
    IN  IF is_none(trusted_parent)
        THEN None
        ELSE IF is_none(unwrap(trusted_parent).delegations)
        THEN None
        ELSE LET trusted_delegations == unwrap(unwrap(trusted_parent).delegations)
                 i == first_index(trusted_delegations.roles, role)
             IN  IF i = 0
                 THEN None
                 ELSE LET trusted_delegation == trusted_delegations.roles[i]
                      IN  Some([threshold |-> trusted_delegation.threshold,
                                keys |-> {k \in trusted_delegations.keys :
                                             k \in trusted_delegation.key_ids}])

update_delegation(t, parent_role, role, raw_delegation, n) ==
    IF IsErr(trusted_root_unexpired(t, n))
    THEN Ret(t, trusted_root_unexpired(t, n))
    ELSE IF IsErr(trusted_snapshot_unexpired(t, n))
    THEN Ret(t, trusted_snapshot_unexpired(t, n))
    ELSE IF IsErr(trusted_targets_unexpired(t, n))
    THEN Ret(t, trusted_targets_unexpired(t, n))
    ELSE
    LET trusted_snapshot == unwrap(t.trusted_snapshot)
        trusted_targets == unwrap(t.trusted_targets)
        trusted_delegation_description == get(trusted_snapshot.meta, role)
        trusted_delegation_version_ == trusted_delegation_version(t, role)
        authorized == find_delegation_threshold_and_keys(t, parent_role, role)
        new_delegation == raw_delegation.metadata
    IN  IF is_none(trusted_targets.delegations)
        THEN Ret(t, VerificationFailure)
        ELSE IF is_none(trusted_delegation_description)
        THEN Ret(t, VerificationFailure)
        ELSE IF unwrap(trusted_delegation_description).version
                    < trusted_delegation_version_
        THEN Ret(t, VerificationFailure)
        ELSE IF is_none(authorized)
        THEN Ret(t, VerificationFailure)
        ELSE IF ~verify_signatures(raw_delegation, unwrap(authorized).threshold,
                                   unwrap(authorized).keys)
        THEN Ret(t, VerificationFailure)
        ELSE IF trusted_delegation_version_
                    = unwrap(trusted_delegation_description).version
        THEN Ret(t, OkFalse)
        ELSE IF new_delegation.version
                    # unwrap(trusted_delegation_description).version
        THEN Ret(t, VerificationFailure)
        ELSE IF new_delegation.expires <= n
        THEN Ret(t, ExpiredMetadata("Targets"))
        ELSE Ret([t EXCEPT !.trusted_delegations =
                               insert(t.trusted_delegations, role, new_delegation)],
                 OkTrue)

----------------------------------------------------------------------------
(* VirtualTargetPath: a path is the sequence of its characters *)

ends_with_slash(path) == Len(path) > 0 /\ path[Len(path)] = "/"

starts_with(path, prefix) ==
    /\ Len(prefix) <= Len(path)
    /\ \A i \in 1..Len(prefix) : path[i] = prefix[i]

is_child(self, parent) ==
    IF ~ends_with_slash(parent) THEN FALSE ELSE starts_with(self, parent)

\* a matches_chain that looks at the last group as it was given
matches_chain_unfiltered(self, parents) ==
    IF Len(parents) = 0
    THEN FALSE
    ELSE \E p \in parents[Len(parents)] : p = self \/ is_child(self, p)

RECURSIVE matches_chain(_, _)
matches_chain(self, parents) ==
    IF Len(parents) = 0
    THEN FALSE
    ELSE IF Len(parents) = 1
    THEN \E p \in parents[1] : p = self \/ is_child(self, p)
    ELSE LET new == [i \in 1..(Len(parents) - 1) |->
                        {parent \in parents[i + 1] :
                            \E p \in parents[1] : is_child(parent, p) \/ parent = p}]
         IN  matches_chain(self, new)

----------------------------------------------------------------------------
(* Tuf::target_description *)

\* what lookup returns, with the visited set it leaves to its caller
Looked(term, res, visited) == [term |-> term, res |-> res, visited |-> visited]

\* the depth at which a walk that no longer ends is cut off
MaxWalkDepth == 4

\* a lookup that does not consult the visited set; a walk that goes deeper
\* than any walk over distinct roles can is reported as "unbounded"
RECURSIVE lookup_unvisited(_, _, _, _, _, _, _, _, _)
lookup_unvisited(t, default_terminate, current_depth, target_path, delegations, parents, visited, n, i) ==
    IF current_depth > MaxWalkDepth
    THEN Looked(TRUE, Some("unbounded"), visited)
    ELSE IF i > Len(delegations.roles)
    THEN Looked(default_terminate, None, visited)
    ELSE
    LET delegation == delegations.roles[i]
        visited_ == visited \cup {delegation.role}
        new_parents == Append(parents, delegation.paths)
        found == get(t.trusted_delegations, delegation.role)
    IN  IF current_depth > 0 /\ ~matches_chain(target_path, parents)
        THEN Looked(delegation.terminating, None, visited_)
        ELSE IF is_none(found)
        THEN Looked(delegation.terminating, None, visited_)
        ELSE IF unwrap(found).expires <= n
        THEN Looked(delegation.terminating, None, visited_)
        ELSE IF is_some(get(unwrap(found).targets, target_path))
        THEN Looked(delegation.terminating,
                    get(unwrap(found).targets, target_path), visited_)
        ELSE IF is_some(unwrap(found).delegations)
        THEN LET child == lookup_unvisited(t, delegation.terminating,
                                 current_depth + 1,
                                 target_path, unwrap(unwrap(found).delegations),
                                 new_parents, visited_, n, 1)
             IN  IF child.term
                 THEN Looked(TRUE, child.res, child.visited)
                 ELSE IF is_some(child.res)
                 THEN Looked(child.term, child.res, child.visited)
                 ELSE lookup_unvisited(t, default_terminate, current_depth,
                             target_path,
                             delegations, parents, child.visited, n, i + 1)
        ELSE lookup_unvisited(t, default_terminate, current_depth, target_path,
                    delegations, parents, visited_, n, i + 1)

\* fn lookup: the loop over delegations.roles() from index i on
RECURSIVE lookup(_, _, _, _, _, _, _, _, _)
lookup(t, default_terminate, current_depth, target_path, delegations, parents, visited, n, i) ==
    IF i > Len(delegations.roles)
    THEN Looked(default_terminate, None, visited)
    ELSE
    LET delegation == delegations.roles[i]
        visited_ == visited \cup {delegation.role}
        new_parents == Append(parents, delegation.paths)
        found == get(t.trusted_delegations, delegation.role)
    IN  IF delegation.role \in visited
        THEN Looked(delegation.terminating, None, visited)
        ELSE IF current_depth > 0 /\ ~matches_chain(target_path, parents)
        THEN Looked(delegation.terminating, None, visited_)
        ELSE IF is_none(found)
        THEN Looked(delegation.terminating, None, visited_)
        ELSE IF unwrap(found).expires <= n
        THEN Looked(delegation.terminating, None, visited_)
        ELSE IF is_some(get(unwrap(found).targets, target_path))
        THEN Looked(delegation.terminating,
                    get(unwrap(found).targets, target_path), visited_)
        ELSE IF is_some(unwrap(found).delegations)
        THEN LET child == lookup(t, delegation.terminating, current_depth + 1,
                                 target_path, unwrap(unwrap(found).delegations),
                                 new_parents, visited_, n, 1)
             IN  IF child.term
                 THEN Looked(TRUE, child.res, child.visited)
                 ELSE IF is_some(child.res)
                 THEN Looked(child.term, child.res, child.visited)
                 ELSE lookup(t, default_terminate, current_depth, target_path,
                             delegations, parents, child.visited, n, i + 1)
        ELSE lookup(t, default_terminate, current_depth, target_path,
                    delegations, parents, visited_, n, i + 1)

\* the result is Ok(description) or an error
OkDescription(description) == "Ok(" \o description \o ")"

target_description(t, target_path, n) ==
    IF IsErr(trusted_root_unexpired(t, n))
    THEN Ret(t, trusted_root_unexpired(t, n))
    ELSE IF IsErr(trusted_snapshot_unexpired(t, n))
    THEN Ret(t, trusted_snapshot_unexpired(t, n))
    ELSE IF IsErr(trusted_targets_unexpired(t, n))
    THEN Ret(t, trusted_targets_unexpired(t, n))
    ELSE
    LET targets == unwrap(t.trusted_targets)
    IN  IF is_some(get(targets.targets, target_path))
        THEN Ret(t, OkDescription(targets.targets[target_path]))
        ELSE IF is_some(targets.delegations)
        THEN LET r == lookup(t, FALSE, 0, target_path, unwrap(targets.delegations),
                             <<>>, {}, n, 1)
             IN  IF is_some(r.res)
                 THEN Ret(t, OkDescription(unwrap(r.res)))
                 ELSE Ret(t, TargetUnavailable)
        ELSE Ret(t, TargetUnavailable)

----------------------------------------------------------------------------
(* The metadata presented to the trust store *)

Versions == 1..MaxVersion

\* expiration dates: one the clock reaches, one it never reaches
ExpiresValues == {1, MaxTime + 1}

\* the role definitions of the roots: one key for every role, or a root role
\* of two keys that must both sign and a targets key of its own
RootKeyings ==
    { [root |-> RoleDefinition(1, {"K0"}), snapshot |-> RoleDefinition(1, {"K0"}),
       targets |-> RoleDefinition(1, {"K0"}), timestamp |-> RoleDefinition(1, {"K0"})],
      [root |-> RoleDefinition(2, {"K0", "K1"}), snapshot |-> RoleDefinition(1, {"K0"}),
       targets |-> RoleDefinition(1, {"K1"}), timestamp |-> RoleDefinition(1, {"K0"})] }

\* RootMetadataBuilder::build: `keys` holds the keys of every role
RootMetadata(version, expires, k) ==
    [version |-> version, expires |-> expires,
     keys |-> k.root.key_ids \cup k.snapshot.key_ids
                \cup k.targets.key_ids \cup k.timestamp.key_ids,
     root |-> k.root, snapshot |-> k.snapshot,
     targets |-> k.targets, timestamp |-> k.timestamp]

Roots == {RootMetadata(v, e, k) : v \in Versions, e \in ExpiresValues, k \in RootKeyings}

MetadataDescription(version) == [version |-> version]

Timestamps ==
    {[version |-> v, expires |-> e, snapshot |-> MetadataDescription(sv)] :
        v \in Versions, e \in ExpiresValues, sv \in Versions}

\* the delegated roles
DelegRoles == {"A"}

MetaPaths == {TargetsPath} \cup DelegRoles

Metas ==
    UNION {[S -> {MetadataDescription(v) : v \in Versions}] : S \in SUBSET MetaPaths}

Snapshots ==
    {[version |-> v, expires |-> e, meta |-> m] :
        v \in Versions, e \in ExpiresValues, m \in Metas}

\* target paths
PathF == <<"f">>
PathD == <<"d", "/">>
PathDF == <<"d", "/", "f">>
TargetPaths == {PathF, PathDF}

Delegation(role, terminating, threshold, key_ids, paths) ==
    [role |-> role, terminating |-> terminating, threshold |-> threshold,
     key_ids |-> key_ids, paths |-> paths]

\* Delegations::new
Delegations(keys, roles) == [keys |-> keys, roles |-> roles]

\* the delegated role A is trusted for the paths under d/, signed by K1
DelegationA == Delegation("A", FALSE, 1, {"K1"}, {PathD})

\* the top-level targets metadata lists f and delegates d/ to A
TargetsMetadatas ==
    {[version |-> v, expires |-> e, targets |-> (PathF :> "x"),
      delegations |-> Some(Delegations({"K0", "K1"}, <<DelegationA>>))] :
        v \in Versions, e \in ExpiresValues}

\* the metadata of A lists d/f and delegates d/ to A again
DelegatedMetadatas ==
    {[version |-> v, expires |-> e, targets |-> (PathDF :> "y"),
      delegations |-> Some(Delegations({"K1"}, <<DelegationA>>))] :
        v \in Versions, e \in ExpiresValues}

\* a root is presented with the valid signatures of any set of keys, the
\* other roles with the valid signature of one key
Signed(metadatas) == {Raw(s, m) : s \in SUBSET KeyIds, m \in metadatas}
SignedByOne(metadatas) == {Raw({k}, m) : k \in KeyIds, m \in metadatas}

----------------------------------------------------------------------------
(* The trust store as a state machine *)

NoCall == [op |-> "none", arg |-> <<>>, parent_role |-> "", role |-> "", result |-> ""]

Call(op, arg, parent_role, role, result) ==
    [op |-> op, arg |-> arg, parent_role |-> parent_role, role |-> role,
     result |-> result]

\* no Client is constructed
NoClient ==
    [pc |-> "none", remote |-> EmptyMap, local |-> EmptyMap, trusted_root_keys |-> {},
     config |-> [max_delegation_depth |-> 8], target |-> <<>>,
     events |-> <<>>, steps |-> <<>>, at |-> 0, result |-> ""]

ClientIdle == client = NoClient

\* nothing of metadata.rs is under construction
MetadataIdle ==
    /\ signed = <<>>
    /\ m_arg = <<>>
    /\ m_ret = <<>>

VerifyIdle ==
    /\ v_sigs = <<>>
    /\ v_threshold = 0
    /\ v_keys = {}
    /\ v_result = ""

\* Tuf::from_trusted_root on a version 1 root that signed itself
Init ==
    /\ promoted_snapshot = 0
    /\ \E raw_root \in Signed({r \in Roots : r.version = 1}) :
          /\ is_some(from_trusted_root(raw_root))
          /\ tuf = unwrap(from_trusted_root(raw_root))
    /\ now = 0
    /\ pc = "idle"
    /\ call = NoCall
    /\ pre = tuf
    /\ VerifyIdle
    /\ MetadataIdle
    /\ ClientIdle

\* a call returned `r`
Returned(op, arg, parent_role, role, r) ==
    /\ tuf' = r.tuf
    /\ call' = Call(op, arg, parent_role, role, r.result)
    /\ pre' = tuf
    /\ pc' = "returned"
    /\ UNCHANGED <<now, v_sigs, v_threshold, v_keys, v_result, client, metadataVars, promoted_snapshot>>

UpdateRoot ==
    /\ pc = "idle"
    /\ \E raw \in Signed(Roots) :
          Returned("update_root", raw, "", "", update_root(tuf, raw))

UpdateTimestamp ==
    /\ pc = "idle"
    /\ \E raw \in SignedByOne(Timestamps) :
          Returned("update_timestamp", raw, "", "", update_timestamp(tuf, raw, now))

UpdateSnapshot ==
    /\ pc = "idle"
    /\ \E raw \in SignedByOne(Snapshots) :
          Returned("update_snapshot", raw, "", "", update_snapshot(tuf, raw, now))

UpdateTargets ==
    /\ pc = "idle"
    /\ \E raw \in SignedByOne(TargetsMetadatas) :
          Returned("update_targets", raw, "", "", update_targets(tuf, raw, now))

UpdateDelegation ==
    /\ pc = "idle"
    /\ \E parent_role \in MetaPaths, role \in DelegRoles,
          raw \in SignedByOne(DelegatedMetadatas) :
          Returned("update_delegation", raw, parent_role, role,
                   update_delegation(tuf, parent_role, role, raw, now))

TargetDescription ==
    /\ pc = "idle"
    /\ \E target_path \in TargetPaths :
          Returned("target_description", target_path, "", "",
                   target_description(tuf, target_path, now))

\* the caller takes the result
Return ==
    /\ pc = "returned"
    /\ pc' = "idle"
    /\ call' = NoCall
    /\ pre' = tuf
    /\ UNCHANGED <<tuf, now, v_sigs, v_threshold, v_keys, v_result, client, metadataVars, promoted_snapshot>>

\* time passes between calls
Tick ==
    /\ pc = "idle"
    /\ now < MaxTime
    /\ now' = now + 1
    /\ UNCHANGED <<tuf, pc, call, pre, v_sigs, v_threshold, v_keys, v_result, client, metadataVars, promoted_snapshot>>

Next ==
    \/ UpdateRoot
    \/ UpdateTimestamp
    \/ UpdateSnapshot
    \/ UpdateTargets
    \/ UpdateDelegation
    \/ TargetDescription
    \/ Return
    \/ Tick

Spec == Init /\ [][Next]_vars

----------------------------------------------------------------------------
(* SignedMetadata::verify *)

\* a signature: the id of the key it names, and whether PublicKey::verify
\* accepts it for the canonical bytes of the metadata
Signature(key_id, valid) == [key_id |-> key_id, valid |-> valid]

Signatures == {Signature(k, b) : k \in KeyIds, b \in BOOLEAN}

SignatureLists == UNION {[1..len -> Signatures] : len \in 0..MaxSigs}

\* the loop over self.signatures from index i on: what is left of
\* signatures_needed when the loop ends
RECURSIVE signatures_needed(_, _, _, _)
signatures_needed(signatures, authorized_keys, needed, i) ==
    IF i > Len(signatures)
    THEN needed
    ELSE LET sig == signatures[i]
             left == IF sig.key_id \in authorized_keys /\ sig.valid
                     THEN needed - 1
                     ELSE needed
         IN  IF left = 0
             THEN 0
             ELSE signatures_needed(signatures, authorized_keys, left, i + 1)

verify(signatures, threshold, authorized_keys) ==
    IF Len(signatures) = 0
    THEN VerificationFailure
    ELSE IF threshold < 1
    THEN VerificationFailure
    ELSE IF signatures_needed(signatures, authorized_keys, threshold, 1) = 0
    THEN "Ok(())"
    ELSE VerificationFailure

\* the trust store is not used while signatures are verified
TufIdle ==
    /\ promoted_snapshot = 0
    /\ tuf = None
    /\ now = 0
    /\ pc = "idle"
    /\ call = NoCall
    /\ pre = None
    /\ ClientIdle

InitVerify ==
    /\ TufIdle
    /\ MetadataIdle
    /\ v_sigs \in SignatureLists
    /\ v_threshold \in 0..MaxSigs
    /\ v_keys \in SUBSET KeyIds
    /\ v_result = ""

Verify ==
    /\ v_result = ""
    /\ v_result' = verify(v_sigs, v_threshold, v_keys)
    /\ UNCHANGED <<tuf, now, pc, call, pre, v_sigs, v_threshold, v_keys, client, metadataVars, promoted_snapshot>>

NextVerify == Verify

SpecVerify == InitVerify /\ [][NextVerify]_vars

----------------------------------------------------------------------------
(* What the claims speak of *)

UpdateOps ==
    {"update_root", "update_timestamp", "update_snapshot", "update_targets",
     "update_delegation"}

\* a call of the trust store has returned
Called(op) == pc = "returned" /\ call.op = op

\* the metadata presented in the last call
Candidate == call.arg.metadata

\* `raw` carries valid signatures of at least definition.threshold distinct
\* keys among those of `keys` that the definition lists
SignedByThreshold(raw, definition, keys) ==
    Cardinality({k \in raw.signatures : k \in keys /\ k \in definition.key_ids})
        >= definition.threshold

\* the delegation of `role` in the delegations of targets metadata `parent`
DelegationEntries(parent, role) ==
    IF is_none(parent) \/ is_none(unwrap(parent).delegations)
    THEN {}
    ELSE LET d == unwrap(unwrap(parent).delegations)
         IN  {[keys |-> d.keys, entry |-> d.roles[i]] :
                 i \in {j \in 1..Len(d.roles) : d.roles[j].role = role}}

\* the trusted metadata of the parent role named in an update_delegation call
TrustedParent(t, parent_role) ==
    IF parent_role = TargetsPath
    THEN t.trusted_targets
    ELSE get(t.trusted_delegations, parent_role)

\* the last call presented metadata signed as its role requires in the
\* store the call found
CorrectlySigned ==
    CASE call.op = "update_root" ->
            /\ SignedByThreshold(call.arg, pre.trusted_root.root, pre.trusted_root.keys)
            /\ SignedByThreshold(call.arg, Candidate.root, Candidate.keys)
      [] call.op = "update_timestamp" ->
            SignedByThreshold(call.arg, pre.trusted_root.timestamp, pre.trusted_root.keys)
      [] call.op = "update_snapshot" ->
            SignedByThreshold(call.arg, pre.trusted_root.snapshot, pre.trusted_root.keys)
      [] call.op = "update_targets" ->
            SignedByThreshold(call.arg, pre.trusted_root.targets, pre.trusted_root.keys)
      [] call.op = "update_delegation" ->
            \E d \in DelegationEntries(TrustedParent(pre, call.parent_role), call.role) :
                SignedByThreshold(call.arg, d.entry, d.keys)
      [] OTHER -> FALSE

\* the trusted version of the role of the last call in store t, 0 if none
RoleVersion(t) ==
    CASE call.op = "update_root" -> t.trusted_root.version
      [] call.op = "update_timestamp" -> version_or_0(t.trusted_timestamp)
      [] call.op = "update_snapshot" -> version_or_0(t.trusted_snapshot)
      [] call.op = "update_targets" -> version_or_0(t.trusted_targets)
      [] call.op = "update_delegation" ->
            version_or_0(get(t.trusted_delegations, call.role))
      [] OTHER -> 0

\* an update was presented correctly signed metadata older than the trusted one
RolledBack ==
    /\ pc = "returned"
    /\ call.op \in UpdateOps
    /\ CorrectlySigned
    /\ Candidate.version < RoleVersion(pre)

----------------------------------------------------------------------------
(* C1 *)

\* C1 as stated: for every role, presenting to the update operation a
\* correctly signed metadata whose version is strictly lower than the trusted
\* version of the role fails with VerificationFailure and leaves every
\* trusted slot unchanged.
C1_RollbackFailsWithVerificationFailure ==
    RolledBack => (call.result = VerificationFailure /\ tuf = pre)

\* C1 amended: for every role, presenting a correctly signed metadata whose
\* version is strictly lower than the trusted version of the role leaves
\* every trusted slot unchanged and returns an error or the no-op Ok(false);
\* for root and timestamp the error is VerificationFailure.
C1_RollbackNeverPromoted ==
    RolledBack =>
        /\ tuf = pre
        /\ (IsErr(call.result) \/ call.result = OkFalse)
        /\ (call.op \in {"update_root", "update_timestamp"}
                => call.result = VerificationFailure)

\* snapshot 1 was presented, correctly signed, to a store that trusts
\* snapshot 2, and was ignored with Ok(false)
C1_Witness ==
    /\ RolledBack
    /\ call.op = "update_snapshot"
    /\ version_or_0(pre.trusted_snapshot) = 2
    /\ Candidate.version = 1
    /\ call.result = OkFalse
    /\ version_or_0(tuf.trusted_snapshot) = 2

----------------------------------------------------------------------------
(* C2 *)

\* C2: whenever update_root, update_timestamp, update_snapshot,
\* update_targets or update_delegation returns an error, every trusted slot
\* is as it was before the call.
C2_ErrorLeavesStoreUnchanged ==
    (pc = "returned" /\ call.op \in UpdateOps /\ IsErr(call.result)) => tuf = pre

----------------------------------------------------------------------------
(* C3 *)

\* the version the store the call found declares for the metadata of the
\* last call: the trusted timestamp for a snapshot, the trusted snapshot for
\* targets and delegated targets; None if nothing is declared
DeclaredDescription ==
    CASE call.op = "update_snapshot" ->
            IF is_some(pre.trusted_timestamp)
            THEN Some(unwrap(pre.trusted_timestamp).snapshot)
            ELSE None
      [] call.op = "update_targets" ->
            IF is_some(pre.trusted_snapshot)
            THEN get(unwrap(pre.trusted_snapshot).meta, TargetsPath)
            ELSE None
      [] call.op = "update_delegation" ->
            IF is_some(pre.trusted_snapshot)
            THEN get(unwrap(pre.trusted_snapshot).meta, call.role)
            ELSE None
      [] OTHER -> None

\* an update was presented metadata whose version is not the declared one
MixedAndMatched ==
    /\ pc = "returned"
    /\ call.op \in {"update_snapshot", "update_targets", "update_delegation"}
    /\ is_some(DeclaredDescription)
    /\ Candidate.version # unwrap(DeclaredDescription).version

Unexpired(o) == is_some(o) /\ unwrap(o).expires > now

\* the last call got as far as comparing the candidate with the declared
\* version: the trusted metadata it depends on is present and not expired,
\* the declared version is newer than the trusted version of the role, and
\* the candidate is correctly signed
ComparedWithDeclared ==
    /\ is_some(DeclaredDescription)
    /\ pre.trusted_root.expires > now
    /\ CorrectlySigned
    /\ unwrap(DeclaredDescription).version > RoleVersion(pre)
    /\ CASE call.op = "update_snapshot" -> Unexpired(pre.trusted_timestamp)
         [] call.op = "update_targets" -> Unexpired(pre.trusted_snapshot)
         [] call.op = "update_delegation" ->
                /\ Unexpired(pre.trusted_snapshot)
                /\ Unexpired(pre.trusted_targets)
                /\ is_some(unwrap(pre.trusted_targets).delegations)
         [] OTHER -> FALSE

\* as ComparedWithDeclared, for a candidate of any signatures
ComparedWithDeclaredExceptSignature ==
    /\ is_some(DeclaredDescription)
    /\ pre.trusted_root.expires > now
    /\ unwrap(DeclaredDescription).version > RoleVersion(pre)
    /\ CASE call.op = "update_snapshot" -> Unexpired(pre.trusted_timestamp)
         [] call.op = "update_targets" -> Unexpired(pre.trusted_snapshot)
         [] OTHER -> FALSE

----------------------------------------------------------------------------
(* C4 *)

\* C4: when update_root promotes a new root, trusted_snapshot,
\* trusted_targets and trusted_timestamp are None and trusted_delegations is
\* empty afterwards, and the new root is the trusted root.
C4_RootRotationPurges ==
    (Called("update_root") /\ call.result = OkTrue) =>
        /\ tuf.trusted_root = Candidate
        /\ is_none(tuf.trusted_snapshot)
        /\ is_none(tuf.trusted_targets)
        /\ is_none(tuf.trusted_timestamp)
        /\ DOMAIN tuf.trusted_delegations = {}

\* a new root was promoted into a store that trusted a timestamp, a
\* snapshot, targets and a delegation
C4_Witness ==
    /\ Called("update_root")
    /\ call.result = OkTrue
    /\ is_some(pre.trusted_timestamp)
    /\ is_some(pre.trusted_snapshot)
    /\ is_some(pre.trusted_targets)
    /\ DOMAIN pre.trusted_delegations # {}
    /\ is_none(tuf.trusted_timestamp)
    /\ DOMAIN tuf.trusted_delegations = {}

----------------------------------------------------------------------------
(* C5 *)

SignedByTrustedRoot ==
    SignedByThreshold(call.arg, pre.trusted_root.root, pre.trusted_root.keys)

SignedByOwnRoot ==
    SignedByThreshold(call.arg, Candidate.root, Candidate.keys)

\* C5: update_root promotes a candidate only if it is signed by at least the
\* trusted root's threshold of the trusted root's root keys and by at least
\* its own threshold of its own root keys; a candidate that misses either is
\* rejected with VerificationFailure and the store is unchanged.
C5_RootCrossSigned ==
    Called("update_root") =>
        /\ (tuf.trusted_root # pre.trusted_root =>
                SignedByTrustedRoot /\ SignedByOwnRoot)
        /\ (~(SignedByTrustedRoot /\ SignedByOwnRoot) =>
                call.result = VerificationFailure /\ tuf = pre)

\* a newer root signed by its own root key only, not by the trusted root's
\* threshold, was rejected
C5_Witness ==
    /\ Called("update_root")
    /\ Candidate.version > pre.trusted_root.version
    /\ SignedByOwnRoot
    /\ ~SignedByTrustedRoot
    /\ call.result = VerificationFailure
    /\ tuf.trusted_root = pre.trusted_root

----------------------------------------------------------------------------
(* C6 *)

\* C6: after any update call that does not return an error, the trusted
\* version of the role of the call is at least what it was before the call.
C6_Monotonic ==
    (pc = "returned" /\ call.op \in UpdateOps /\ ~IsErr(call.result)) =>
        RoleVersion(tuf) >= RoleVersion(pre)

\* a root update raised the trusted root version
C6_Witness ==
    /\ Called("update_root")
    /\ call.result = OkTrue
    /\ RoleVersion(pre) = 1
    /\ RoleVersion(tuf) = 2

----------------------------------------------------------------------------
(* C7 *)

\* the authorized key ids that have a valid signature in the list
ValidAuthorizedKeyIds ==
    {k \in v_keys : \E i \in 1..Len(v_sigs) :
                        v_sigs[i].key_id = k /\ v_sigs[i].valid}

\* C7: for a threshold of at least 1, SignedMetadata::verify succeeds
\* exactly when the valid signatures come from at least threshold distinct
\* authorized key ids.
C7_ThresholdOfDistinctKeyIds ==
    (v_result # "" /\ v_threshold >= 1) =>
        (v_result = "Ok(())" <=> Cardinality(ValidAuthorizedKeyIds) >= v_threshold)

----------------------------------------------------------------------------
(* C8 *)

TopLevelOps == {"update_timestamp", "update_snapshot", "update_targets"}

\* the last call presented metadata signed only by keys that the trusted
\* root does not list for the role of the call
SignedByOtherRoleOnly ==
    /\ pc = "returned"
    /\ call.op \in TopLevelOps
    /\ ~CorrectlySigned

\* the last call replaced the trusted metadata of its role
Promoted ==
    CASE call.op = "update_timestamp" -> tuf.trusted_timestamp # pre.trusted_timestamp
      [] call.op = "update_snapshot" -> tuf.trusted_snapshot # pre.trusted_snapshot
      [] call.op = "update_targets" -> tuf.trusted_targets # pre.trusted_targets
      [] OTHER -> FALSE

\* C8 as stated: update_timestamp, update_snapshot and update_targets accept
\* a candidate only when it is signed by the threshold of the keys the
\* trusted root lists for that role; a candidate signed only by a key of
\* another role is rejected with an error and not promoted.
C8_OtherRoleKeyRejectedWithError ==
    SignedByOtherRoleOnly => (IsErr(call.result) /\ ~Promoted)

\* C8 amended: a candidate that is not signed by the threshold of the keys
\* the trusted root lists for its role is never promoted and the store is
\* unchanged; update_timestamp rejects it with VerificationFailure,
\* update_snapshot and update_targets reject it with an error, or ignore it
\* with the no-op Ok(false) when the trusted metadata of the role is already
\* at the declared version.
C8_OtherRoleKeyNeverPromoted ==
    SignedByOtherRoleOnly =>
        /\ ~Promoted
        /\ tuf = pre
        /\ (call.op = "update_timestamp" => call.result = VerificationFailure)
        /\ \/ IsErr(call.result)
           \/ /\ call.result = OkFalse
              /\ is_some(DeclaredDescription)
              /\ unwrap(DeclaredDescription).version = RoleVersion(pre)

\* targets of the declared version signed by the snapshot key, which is not
\* a targets key, were rejected
C8_Witness ==
    /\ SignedByOtherRoleOnly
    /\ call.op = "update_targets"
    /\ call.arg.signatures \subseteq pre.trusted_root.snapshot.key_ids
    /\ ComparedWithDeclaredExceptSignature
    /\ call.result = VerificationFailure
    /\ ~Promoted

----------------------------------------------------------------------------
(* C9 *)

RootExpired == pre.trusted_root.expires <= now

\* C9 as stated: update_snapshot fails with MissingMetadata(Timestamp) when
\* no timestamp is trusted, update_targets fails with
\* MissingMetadata(Snapshot) when no snapshot is trusted, update_delegation
\* and target_description fail with MissingMetadata(Snapshot) or
\* MissingMetadata(Targets) when the snapshot or the targets is not trusted,
\* and none of these failures changes the store.
C9_MissingPredecessorFailsWithMissingMetadata ==
    /\ (Called("update_snapshot") /\ is_none(pre.trusted_timestamp)) =>
            (call.result = MissingMetadata("Timestamp") /\ tuf = pre)
    /\ (Called("update_targets") /\ is_none(pre.trusted_snapshot)) =>
            (call.result = MissingMetadata("Snapshot") /\ tuf = pre)
    /\ ((Called("update_delegation") \/ Called("target_description"))
            /\ (is_none(pre.trusted_snapshot) \/ is_none(pre.trusted_targets))) =>
            /\ call.result \in {MissingMetadata("Snapshot"), MissingMetadata("Targets")}
            /\ tuf = pre

\* C9 amended: while the trusted root is not expired, update_snapshot fails
\* with MissingMetadata(Timestamp) when no timestamp is trusted,
\* update_targets fails with MissingMetadata(Snapshot) when no snapshot is
\* trusted, update_delegation and target_description fail with
\* MissingMetadata(Snapshot) when no snapshot is trusted and with
\* MissingMetadata(Targets) when an unexpired snapshot is trusted and no
\* targets is; with an expired trusted root each of these calls fails with
\* ExpiredMetadata(Root) instead; none of these failures changes the store.
C9_MissingPredecessorAfterRootCheck ==
    /\ (Called("update_snapshot") /\ is_none(pre.trusted_timestamp)) =>
            /\ call.result = IF RootExpired THEN ExpiredMetadata("Root")
                             ELSE MissingMetadata("Timestamp")
            /\ tuf = pre
    /\ (Called("update_targets") /\ is_none(pre.trusted_snapshot)) =>
            /\ call.result = IF RootExpired THEN ExpiredMetadata("Root")
                             ELSE MissingMetadata("Snapshot")
            /\ tuf = pre
    /\ ((Called("update_delegation") \/ Called("target_description"))
            /\ is_none(pre.trusted_snapshot)) =>
            /\ call.result = IF RootExpired THEN ExpiredMetadata("Root")
                             ELSE MissingMetadata("Snapshot")
            /\ tuf = pre
    /\ ((Called("update_delegation") \/ Called("target_description"))
            /\ Unexpired(pre.trusted_snapshot) /\ is_none(pre.trusted_targets)) =>
            /\ call.result = IF RootExpired THEN ExpiredMetadata("Root")
                             ELSE MissingMetadata("Targets")
            /\ tuf = pre

\* update_delegation was called on a store with an unexpired root and an
\* unexpired snapshot but no targets, and failed with MissingMetadata(Targets)
C9_Witness ==
    /\ Called("update_delegation")
    /\ ~RootExpired
    /\ Unexpired(pre.trusted_snapshot)
    /\ is_none(pre.trusted_targets)
    /\ call.result = MissingMetadata("Targets")
    /\ tuf = pre

----------------------------------------------------------------------------
(* C10 *)

\* C10: update_timestamp called while the trusted root is expired fails with
\* ExpiredMetadata(Root) and does not promote the candidate.
C10_TimestampRequiresUnexpiredRoot ==
    (Called("update_timestamp") /\ RootExpired) =>
        /\ call.result = ExpiredMetadata("Root")
        /\ tuf.trusted_timestamp = pre.trusted_timestamp


----------------------------------------------------------------------------
(* C11 *)

\* the last call presented a correctly signed candidate, newer than the
\* trusted metadata of the role, that expires at or before the current time
ExpiredCandidate ==
    /\ CorrectlySigned
    /\ Candidate.version > RoleVersion(pre)
    /\ Candidate.expires <= now

\* C11: a correctly signed timestamp with a version newer than the trusted
\* one and with expires <= now is rejected by update_timestamp with
\* ExpiredMetadata(Timestamp), and trusted_timestamp keeps its value.
C11_ExpiredTimestampRejected ==
    (Called("update_timestamp") /\ ExpiredCandidate) =>
        /\ call.result = ExpiredMetadata("Timestamp")
        /\ tuf.trusted_timestamp = pre.trusted_timestamp

\* timestamp 2, correctly signed and expiring exactly now, was presented to
\* a store that trusts timestamp 1, and was rejected
C11_Witness ==
    /\ Called("update_timestamp")
    /\ ExpiredCandidate
    /\ Candidate.expires = now
    /\ Candidate.version = 2
    /\ is_some(pre.trusted_timestamp)
    /\ call.result = ExpiredMetadata("Timestamp")
    /\ tuf.trusted_timestamp = pre.trusted_timestamp

----------------------------------------------------------------------------
(* C12 *)

\* update_targets got as far as the expiration check of the candidate: root
\* and snapshot are trusted and not expired, the snapshot declares a targets
\* version newer than the trusted one, and the candidate is correctly signed
\* and of the declared version
TargetsReachedExpirationCheck ==
    /\ Called("update_targets")
    /\ ~RootExpired
    /\ Unexpired(pre.trusted_snapshot)
    /\ is_some(DeclaredDescription)
    /\ unwrap(DeclaredDescription).version > RoleVersion(pre)
    /\ CorrectlySigned
    /\ Candidate.version = unwrap(DeclaredDescription).version

\* C12: a correctly signed targets candidate of the version the snapshot
\* declares, with expires <= now, is rejected by update_targets with
\* ExpiredMetadata(Targets), and trusted_targets is not replaced (stated for
\* the calls that get as far as the expiration check).
C12_ExpiredTargetsRejectedAsTargets ==
    (TargetsReachedExpirationCheck /\ Candidate.expires <= now) =>
        /\ call.result = ExpiredMetadata("Targets")
        /\ tuf.trusted_targets = pre.trusted_targets


----------------------------------------------------------------------------
(* C13 *)

TopLevelUpdateOps ==
    {"update_root", "update_timestamp", "update_snapshot", "update_targets"}

\* the outcome of presenting the metadata of the last call once more, to the
\* store the call left, at the same time
Represented ==
    CASE call.op = "update_root" -> update_root(tuf, call.arg)
      [] call.op = "update_timestamp" -> update_timestamp(tuf, call.arg, now)
      [] call.op = "update_snapshot" -> update_snapshot(tuf, call.arg, now)
      [] call.op = "update_targets" -> update_targets(tuf, call.arg, now)
      [] OTHER -> Ret(tuf, "")

\* the no-op result of the operation of the last call
NoOpResult == IF call.op = "update_timestamp" THEN OkNone ELSE OkFalse

\* C13: immediately after a successful update_root, update_timestamp,
\* update_snapshot or update_targets, presenting the same signed metadata
\* again returns the no-op result (Ok(false), Ok(None) for the timestamp)
\* and leaves every trusted slot unchanged.
C13_RepresentationIsNoOp ==
    (pc = "returned" /\ call.op \in TopLevelUpdateOps /\ ~IsErr(call.result)) =>
        /\ Represented.result = NoOpResult
        /\ Represented.tuf = tuf

\* a snapshot was promoted, and presenting it again is a no-op
C13_Witness ==
    /\ Called("update_snapshot")
    /\ call.result = OkTrue
    /\ tuf.trusted_snapshot = Some(Candidate)
    /\ Represented.result = OkFalse
    /\ Represented.tuf = tuf


----------------------------------------------------------------------------
(* Walks of target_description over two sibling delegations.  The trust     *)
(* store is filled by the same operations from metadata whose top-level     *)
(* targets delegate d/ to the roles A and B, in this order.                 *)

WalkRoles == {"A", "B"}

WalkRoot(expires) ==
    RootMetadata(1, expires,
        [root |-> RoleDefinition(1, {"K0"}), snapshot |-> RoleDefinition(1, {"K0"}),
         targets |-> RoleDefinition(1, {"K0"}), timestamp |-> RoleDefinition(1, {"K0"})])

WalkTimestamp ==
    [version |-> 1, expires |-> MaxTime + 1, snapshot |-> MetadataDescription(1)]

WalkSnapshot ==
    [version |-> 1, expires |-> MaxTime + 1,
     meta |-> [p \in {TargetsPath} \cup WalkRoles |-> MetadataDescription(1)]]

\* a delegation of d/ to `role`, signed by K1
WalkDelegation(role, terminating) == Delegation(role, terminating, 1, {"K1"}, {PathD})

\* the top-level targets list no target and delegate to A, terminating or
\* not, and then to B; their delegations have the keys K0 and K1, of which
\* the delegations list K1
WalkTargets ==
    {[version |-> 1, expires |-> MaxTime + 1, targets |-> EmptyMap,
      delegations |-> Some(Delegations({"K0", "K1"},
          <<WalkDelegation("A", terminating), WalkDelegation("B", FALSE)>>))] :
        terminating \in BOOLEAN}

\* the metadata of a delegated role lists d/f or nothing, and delegates to
\* nobody, to itself or to the other role
WalkDelegated(role) ==
    {[version |-> 1, expires |-> e,
      targets |-> IF listed THEN (PathDF :> role) ELSE EmptyMap,
      delegations |-> IF to = "" THEN None
                      ELSE Some(Delegations({"K1"}, <<WalkDelegation(to, FALSE)>>))] :
        e \in ExpiresValues, listed \in BOOLEAN, to \in {""} \cup WalkRoles}

InitWalk ==
    /\ promoted_snapshot = 0
    /\ \E expires \in ExpiresValues :
          tuf = unwrap(from_trusted_root(Raw({"K0"}, WalkRoot(expires))))
    /\ now = 0
    /\ pc = "idle"
    /\ call = NoCall
    /\ pre = tuf
    /\ VerifyIdle
    /\ MetadataIdle
    /\ ClientIdle

WalkUpdateTimestamp ==
    /\ pc = "idle"
    /\ LET raw == Raw({"K0"}, WalkTimestamp)
       IN  Returned("update_timestamp", raw, "", "", update_timestamp(tuf, raw, now))

WalkUpdateSnapshot ==
    /\ pc = "idle"
    /\ LET raw == Raw({"K0"}, WalkSnapshot)
       IN  Returned("update_snapshot", raw, "", "", update_snapshot(tuf, raw, now))

WalkUpdateTargets ==
    /\ pc = "idle"
    /\ \E m \in WalkTargets :
          LET raw == Raw({"K0"}, m)
          IN  Returned("update_targets", raw, "", "", update_targets(tuf, raw, now))

WalkUpdateDelegation ==
    /\ pc = "idle"
    /\ \E parent_role \in {TargetsPath} \cup WalkRoles, role \in WalkRoles :
          \E m \in WalkDelegated(role), k \in KeyIds :
              LET raw == Raw({k}, m)
              IN  Returned("update_delegation", raw, parent_role, role,
                           update_delegation(tuf, parent_role, role, raw, now))

WalkTargetDescription ==
    /\ pc = "idle"
    /\ Returned("target_description", PathDF, "", "",
                target_description(tuf, PathDF, now))

NextWalk ==
    \/ WalkUpdateTimestamp
    \/ WalkUpdateSnapshot
    \/ WalkUpdateTargets
    \/ WalkUpdateDelegation
    \/ WalkTargetDescription
    \/ Return
    \/ Tick

SpecLookup == InitWalk /\ [][NextWalk]_vars


----------------------------------------------------------------------------
(* C14 *)

\* target_description was called on a store whose root, snapshot and targets
\* are trusted and not expired and whose targets do not list the target but
\* delegate
WalkStarted ==
    /\ Called("target_description")
    /\ ~RootExpired
    /\ Unexpired(pre.trusted_snapshot)
    /\ Unexpired(pre.trusted_targets)
    /\ call.arg \notin DOMAIN unwrap(pre.trusted_targets).targets
    /\ is_some(unwrap(pre.trusted_targets).delegations)

\* the delegations of the trusted targets, in declaration order
TopDelegations == unwrap(unwrap(pre.trusted_targets).delegations).roles

\* the delegation yields no description: its metadata is not trusted, or is
\* expired, or lists neither the target nor a delegation
YieldsNothing(delegation) ==
    LET found == get(pre.trusted_delegations, delegation.role)
    IN  \/ is_none(found)
        \/ unwrap(found).expires <= now
        \/ /\ call.arg \notin DOMAIN unwrap(found).targets
           /\ is_none(unwrap(found).delegations)

\* the trusted, unexpired metadata of the delegation lists the target
ListsTarget(delegation) ==
    LET found == get(pre.trusted_delegations, delegation.role)
    IN  /\ is_some(found)
        /\ unwrap(found).expires > now
        /\ call.arg \in DOMAIN unwrap(found).targets

\* every delegation before the i-th is non-terminating and yields nothing
EarlierSiblingsPassed(i) ==
    \A j \in 1..(i - 1) :
        ~TopDelegations[j].terminating /\ YieldsNothing(TopDelegations[j])

\* C14: when the non-terminating delegations before a sibling yield no
\* description, the walk continues and the target listed in that sibling's
\* trusted metadata is found; when a terminating delegation yields no
\* description the walk ends with TargetUnavailable.
C14_WalkContinuesWithNextSibling ==
    WalkStarted =>
        \A i \in 1..Len(TopDelegations) :
            /\ (EarlierSiblingsPassed(i) /\ ListsTarget(TopDelegations[i])) =>
                    call.result = OkDescription(
                        unwrap(get(pre.trusted_delegations,
                                   TopDelegations[i].role)).targets[call.arg])
            /\ (EarlierSiblingsPassed(i) /\ TopDelegations[i].terminating
                    /\ YieldsNothing(TopDelegations[i])) =>
                    call.result = TargetUnavailable


----------------------------------------------------------------------------
(* C15 *)

\* what a walk that ends can return: a description some trusted delegated
\* metadata lists for the target, or an error
WalkResults ==
    {OkDescription(pre.trusted_delegations[r].targets[call.arg]) :
        r \in {q \in DOMAIN pre.trusted_delegations :
                  call.arg \in DOMAIN pre.trusted_delegations[q].targets}}
    \cup Errors

\* the trusted metadata of `role` is not expired, does not list the target
\* and delegates to `to`
DelegatesOn(role, to) ==
    LET found == get(pre.trusted_delegations, role)
    IN  /\ is_some(found)
        /\ unwrap(found).expires > now
        /\ call.arg \notin DOMAIN unwrap(found).targets
        /\ is_some(unwrap(found).delegations)
        /\ \E i \in 1..Len(unwrap(unwrap(found).delegations).roles) :
              unwrap(unwrap(found).delegations).roles[i].role = to

\* C15: target_description ends with a result on every trusted delegation
\* graph, a role that delegates to itself and roles that delegate to each
\* other included: each role is entered at most once per walk.
C15_WalkEnds ==
    WalkStarted => call.result \in WalkResults

\* a walk over A that delegates to B that delegates back to A, neither
\* listing the target, ended with TargetUnavailable
C15_Witness ==
    /\ WalkStarted
    /\ TopDelegations[1].role = "A"
    /\ DelegatesOn("A", "B")
    /\ DelegatesOn("B", "A")
    /\ call.result = TargetUnavailable


----------------------------------------------------------------------------
(* struct Client: Client::with_root_pinned and Client::update over a local
   and a remote repository *)

\* root versions held by the remote repository range over 1..MaxRootVersion
MaxRootVersion == 3

NotFound == "Err(NotFound)"
Programming == "Err(Programming)"
Encoding == "Err(Encoding)"

ClientErrors == Errors \cup {NotFound, Programming, Encoding}

\* enum MetadataVersion: None, Number(u32)
Unversioned == None
Number(i) == Some(i)

\* MetadataPath::from_role
RootPath == "root"
TimestampPath == "timestamp"
SnapshotPath == "snapshot"

\* Repository::fetch_metadata and Repository::store_metadata: a repository
\* maps a metadata path and a version to the signed metadata stored there
fetch_metadata(repo, path, version) == get(repo, <<path, version>>)
store_metadata(repo, path, version, metadata) == insert(repo, <<path, version>>, metadata)

\* the calls a client makes, in the order it makes them
Event(op, path, version, result) ==
    [op |-> op, path |-> path, version |-> version, result |-> result]

Logged(c, op, path, version, result) ==
    [c EXCEPT !.events = Append(@, Event(op, path, version, result))]

Fetched(c, path, version, fetched) ==
    Logged(c, "remote.fetch_metadata", path, version,
           IF is_some(fetched) THEN "Ok" ELSE NotFound)

\* the value a step returns together with the client it leaves
Done(c, result) == [c |-> c, result |-> result]

\* a from_root_with_trusted_keys that checks the supplied keys only
from_root_with_trusted_keys_only(raw_root, root_threshold, keys) ==
    IF ~verify_signatures(raw_root, root_threshold, keys)
    THEN None
    ELSE Some([trusted_root |-> raw_root.metadata,
               trusted_snapshot |-> None,
               trusted_targets |-> None,
               trusted_timestamp |-> None,
               trusted_delegations |-> EmptyMap])

\* Tuf::from_root_with_trusted_keys: signed by the supplied keys, then by
\* the root's own root role
from_root_with_trusted_keys(raw_root, root_threshold, keys) ==
    IF ~verify_signatures(raw_root, root_threshold, keys)
    THEN None
    ELSE IF ~verify_signatures(raw_root, raw_root.metadata.root.threshold,
                               role_keys(raw_root.metadata, raw_root.metadata.root))
    THEN None
    ELSE Some([trusted_root |-> raw_root.metadata,
               trusted_snapshot |-> None,
               trusted_targets |-> None,
               trusted_timestamp |-> None,
               trusted_delegations |-> EmptyMap])

\* Tuf::from_root_pinned: the root verified against the pinned key ids
from_root_pinned(raw_root, trusted_root_keys) ==
    from_root_with_trusted_keys(raw_root, raw_root.metadata.root.threshold,
                                trusted_root_keys)

\* Client::with_root_pinned; `failing` are the entries the local repository
\* fails to store
with_root_pinned(c, remote, trusted_root_keys, failing) ==
    LET in_local == fetch_metadata(c.local, RootPath, Number(1))
        c1 == Logged(c, "local.fetch_metadata", RootPath, Number(1),
                     IF is_some(in_local) THEN "Ok" ELSE NotFound)
        in_remote == fetch_metadata(remote, RootPath, Number(1))
        c2 == Fetched(c1, RootPath, Number(1), in_remote)
        stored == <<RootPath, Number(1)>> \notin failing
        c3 == Logged([c2 EXCEPT !.local =
                         IF stored
                         THEN store_metadata(@, RootPath, Number(1), unwrap(in_remote))
                         ELSE @],
                     "local.store_metadata", RootPath, Number(1),
                     IF stored THEN "Ok" ELSE Encoding)
        pinned(cc, root) ==
            LET t == from_root_pinned(root, trusted_root_keys)
                cc1 == Logged(cc, "Tuf::from_root_pinned", RootPath,
                              Number(root.metadata.version),
                              IF is_some(t) THEN "Ok" ELSE VerificationFailure)
            IN  IF is_none(t)
                THEN Done(cc1, VerificationFailure)
                ELSE Done([cc1 EXCEPT !.tuf = unwrap(t)], "Ok(Client)")
    IN  IF is_some(in_local)
        THEN pinned(c1, unwrap(in_local))
        ELSE IF is_none(in_remote)
        THEN Done(c2, NotFound)
        ELSE IF ~stored
        THEN Done(c3, Encoding)
        ELSE pinned(c3, unwrap(in_remote))

\* Client::store_metadata: a failure of the local repository is logged and
\* otherwise ignored
client_store_metadata(c, path, version, metadata, failing) ==
    IF <<path, version>> \in failing
    THEN Logged(c, "local.store_metadata", path, version, Encoding)
    ELSE Logged([c EXCEPT !.local = store_metadata(@, path, version, metadata)],
                "local.store_metadata", path, version, "Ok")

\* tuf.update_root and the record of the call
tuf_update_root(c, raw_root) ==
    LET r == update_root(c.tuf, raw_root)
    IN  Done(Logged([c EXCEPT !.tuf = r.tuf], "tuf.update_root", RootPath,
                    Number(raw_root.metadata.version), r.result),
             r.result)

\* Client::update_root with a loop that does not store the intermediate roots
RECURSIVE root_walk_unstored(_, _, _, _, _)
root_walk_unstored(c, remote, i, latest_version, failing) ==
    IF i >= latest_version
    THEN Done(c, "")
    ELSE LET signed_root == fetch_metadata(remote, RootPath, Number(i))
             c1 == Fetched(c, RootPath, Number(i), signed_root)
             u == tuf_update_root(c1, unwrap(signed_root))
         IN  IF is_none(signed_root)
             THEN Done(c1, NotFound)
             ELSE IF u.result \in ClientErrors
             THEN u
             ELSE IF u.result = OkFalse
             THEN Done(u.c, Programming)
             ELSE root_walk_unstored(u.c, remote, i + 1, latest_version, failing)

\* Client::update_root, the loop over the intermediate roots i..latest_version-1
RECURSIVE root_walk(_, _, _, _, _)
root_walk(c, remote, i, latest_version, failing) ==
    IF i >= latest_version
    THEN Done(c, "")
    ELSE LET signed_root == fetch_metadata(remote, RootPath, Number(i))
             c1 == Fetched(c, RootPath, Number(i), signed_root)
             u == tuf_update_root(c1, unwrap(signed_root))
         IN  IF is_none(signed_root)
             THEN Done(c1, NotFound)
             ELSE IF u.result \in ClientErrors
             THEN u
             ELSE IF u.result = OkFalse
             THEN Done(u.c, Programming)
             ELSE root_walk(client_store_metadata(u.c, RootPath, Number(i),
                                                  unwrap(signed_root), failing),
                            remote, i + 1, latest_version, failing)

\* Client::update_root that puts the trust store back as it was when a root
\* of the walk is missing or refused
client_update_root_restoring(c, remote, n, failing) ==
    LET latest_root == fetch_metadata(remote, RootPath, Unversioned)
        c1 == Fetched(c, RootPath, Unversioned, latest_root)
        latest_version == unwrap(latest_root).metadata.version
        walked == root_walk(c1, remote, c.tuf.trusted_root.version + 1,
                            latest_version, failing)
        u == tuf_update_root(walked.c, unwrap(latest_root))
        c2 == client_store_metadata(u.c, RootPath, Number(latest_version),
                                    unwrap(latest_root), failing)
        c3 == client_store_metadata(c2, RootPath, Unversioned,
                                    unwrap(latest_root), failing)
    IN  IF is_none(latest_root)
        THEN Done(c1, NotFound)
        ELSE IF latest_version < c.tuf.trusted_root.version
        THEN Done(c1, VerificationFailure)
        ELSE IF latest_version = c.tuf.trusted_root.version
        THEN Done(c1, OkFalse)
        ELSE IF walked.result # ""
        THEN Done([walked.c EXCEPT !.tuf = c.tuf], walked.result)
        ELSE IF u.result \in ClientErrors
        THEN Done([u.c EXCEPT !.tuf = c.tuf], u.result)
        ELSE IF u.result = OkFalse
        THEN Done(u.c, Programming)
        ELSE IF c3.tuf.trusted_root.expires <= n
        THEN Done(c3, ExpiredMetadata("Root"))
        ELSE Done(c3, OkTrue)

\* Client::update_root without the early return on an equal version
client_update_root_walks_equal(c, remote, n, failing) ==
    LET latest_root == fetch_metadata(remote, RootPath, Unversioned)
        c1 == Fetched(c, RootPath, Unversioned, latest_root)
        latest_version == unwrap(latest_root).metadata.version
        walked == root_walk(c1, remote, c.tuf.trusted_root.version + 1,
                            latest_version, failing)
        u == tuf_update_root(walked.c, unwrap(latest_root))
        c2 == client_store_metadata(u.c, RootPath, Number(latest_version),
                                    unwrap(latest_root), failing)
        c3 == client_store_metadata(c2, RootPath, Unversioned,
                                    unwrap(latest_root), failing)
    IN  IF is_none(latest_root)
        THEN Done(c1, NotFound)
        ELSE IF latest_version < c.tuf.trusted_root.version
        THEN Done(c1, VerificationFailure)
        ELSE IF walked.result # ""
        THEN walked
        ELSE IF u.result \in ClientErrors
        THEN u
        ELSE IF u.result = OkFalse
        THEN Done(u.c, Programming)
        ELSE IF c3.tuf.trusted_root.expires <= n
        THEN Done(c3, ExpiredMetadata("Root"))
        ELSE Done(c3, OkTrue)

\* Client::update_root
client_update_root(c, remote, n, failing) ==
    LET latest_root == fetch_metadata(remote, RootPath, Unversioned)
        c1 == Fetched(c, RootPath, Unversioned, latest_root)
        latest_version == unwrap(latest_root).metadata.version
        walked == root_walk(c1, remote, c.tuf.trusted_root.version + 1,
                            latest_version, failing)
        u == tuf_update_root(walked.c, unwrap(latest_root))
        c2 == client_store_metadata(u.c, RootPath, Number(latest_version),
                                    unwrap(latest_root), failing)
        c3 == client_store_metadata(c2, RootPath, Unversioned,
                                    unwrap(latest_root), failing)
    IN  IF is_none(latest_root)
        THEN Done(c1, NotFound)
        ELSE IF latest_version < c.tuf.trusted_root.version
        THEN Done(c1, VerificationFailure)
        ELSE IF latest_version = c.tuf.trusted_root.version
        THEN Done(c1, OkFalse)
        ELSE IF walked.result # ""
        THEN walked
        ELSE IF u.result \in ClientErrors
        THEN u
        ELSE IF u.result = OkFalse
        THEN Done(u.c, Programming)
        ELSE IF c3.tuf.trusted_root.expires <= n
        THEN Done(c3, ExpiredMetadata("Root"))
        ELSE Done(c3, OkTrue)

\* a Client::update_timestamp that stores the timestamp it fetched also when
\* the trust store did not promote it
client_update_timestamp_caching(c, remote, n, failing) ==
    LET signed_timestamp == fetch_metadata(remote, TimestampPath, Unversioned)
        c1 == Fetched(c, TimestampPath, Unversioned, signed_timestamp)
        r == update_timestamp(c1.tuf, unwrap(signed_timestamp), n)
        latest_version == Number(unwrap(signed_timestamp).metadata.version)
        c2 == Logged([c1 EXCEPT !.tuf = r.tuf], "tuf.update_timestamp",
                     TimestampPath, latest_version, r.result)
    IN  IF is_none(signed_timestamp)
        THEN Done(c1, NotFound)
        ELSE IF r.result \in ClientErrors
        THEN Done(c2, r.result)
        ELSE Done(client_store_metadata(c2, TimestampPath, latest_version,
                                        unwrap(signed_timestamp), failing),
                  IF r.result = OkSome THEN OkTrue ELSE OkFalse)

\* Client::update_timestamp with a `?` on the store: a failure of the local
\* repository fails the step
client_update_timestamp_strict(c, remote, n, failing) ==
    LET signed_timestamp == fetch_metadata(remote, TimestampPath, Unversioned)
        c1 == Fetched(c, TimestampPath, Unversioned, signed_timestamp)
        r == update_timestamp(c1.tuf, unwrap(signed_timestamp), n)
        latest_version == Number(unwrap(signed_timestamp).metadata.version)
        c2 == Logged([c1 EXCEPT !.tuf = r.tuf], "tuf.update_timestamp",
                     TimestampPath, latest_version, r.result)
    IN  IF is_none(signed_timestamp)
        THEN Done(c1, NotFound)
        ELSE IF r.result \in ClientErrors
        THEN Done(c2, r.result)
        ELSE IF r.result = OkSome
        THEN Done(client_store_metadata(c2, TimestampPath, latest_version,
                                        unwrap(signed_timestamp), failing),
                  IF <<TimestampPath, latest_version>> \in failing
                  THEN Encoding ELSE OkTrue)
        ELSE Done(c2, OkFalse)

\* Client::update_timestamp
client_update_timestamp(c, remote, n, failing) ==
    LET signed_timestamp == fetch_metadata(remote, TimestampPath, Unversioned)
        c1 == Fetched(c, TimestampPath, Unversioned, signed_timestamp)
        r == update_timestamp(c1.tuf, unwrap(signed_timestamp), n)
        latest_version == Number(unwrap(signed_timestamp).metadata.version)
        c2 == Logged([c1 EXCEPT !.tuf = r.tuf], "tuf.update_timestamp",
                     TimestampPath, latest_version, r.result)
    IN  IF is_none(signed_timestamp)
        THEN Done(c1, NotFound)
        ELSE IF r.result \in ClientErrors
        THEN Done(c2, r.result)
        ELSE IF r.result = OkSome
        THEN Done(client_store_metadata(c2, TimestampPath, latest_version,
                                        unwrap(signed_timestamp), failing),
                  OkTrue)
        ELSE Done(c2, OkFalse)

\* RootMetadata::consistent_snapshot: the roots are built with the
\* builder's default, false, so snapshot and targets are fetched unversioned
consistent_snapshot(root) == FALSE

\* Client::update_snapshot; the descriptions carry a version only, so the
\* choice of a hash (crypto::hash_preference) always succeeds
client_update_snapshot(c, remote, n, failing) ==
    LET snapshot_description == unwrap(c.tuf.trusted_timestamp).snapshot
        version == IF consistent_snapshot(c.tuf.trusted_root)
                   THEN Number(snapshot_description.version)
                   ELSE Unversioned
        signed_snapshot == fetch_metadata(remote, SnapshotPath, version)
        c1 == Fetched(c, SnapshotPath, version, signed_snapshot)
        r == update_snapshot(c1.tuf, unwrap(signed_snapshot), n)
        c2 == Logged([c1 EXCEPT !.tuf = r.tuf], "tuf.update_snapshot",
                     SnapshotPath, Number(unwrap(signed_snapshot).metadata.version),
                     r.result)
    IN  IF is_none(c.tuf.trusted_timestamp)
        THEN Done(c, MissingMetadata("Timestamp"))
        ELSE IF snapshot_description.version <= trusted_snapshot_version(c.tuf)
        THEN Done(c, OkFalse)
        ELSE IF is_none(signed_snapshot)
        THEN Done(c1, NotFound)
        ELSE IF r.result \in ClientErrors
        THEN Done(c2, r.result)
        ELSE IF r.result = OkTrue
        THEN Done(client_store_metadata(c2, SnapshotPath, version,
                                        unwrap(signed_snapshot), failing),
                  OkTrue)
        ELSE Done(c2, OkFalse)

\* Client::update_targets
client_update_targets(c, remote, n, failing) ==
    LET targets_description == get(unwrap(c.tuf.trusted_snapshot).meta, TargetsPath)
        version == Unversioned
        signed_targets == fetch_metadata(remote, TargetsPath, version)
        c1 == Fetched(c, TargetsPath, version, signed_targets)
        r == update_targets(c1.tuf, unwrap(signed_targets), n)
        c2 == Logged([c1 EXCEPT !.tuf = r.tuf], "tuf.update_targets",
                     TargetsPath, Number(unwrap(signed_targets).metadata.version),
                     r.result)
    IN  IF is_none(c.tuf.trusted_snapshot)
        THEN Done(c, MissingMetadata("Snapshot"))
        ELSE IF is_none(targets_description)
        THEN Done(c, VerificationFailure)
        ELSE IF unwrap(targets_description).version <= trusted_targets_version(c.tuf)
        THEN Done(c, OkFalse)
        ELSE IF is_none(signed_targets)
        THEN Done(c1, NotFound)
        ELSE IF r.result \in ClientErrors
        THEN Done(c2, r.result)
        ELSE IF r.result = OkTrue
        THEN Done(client_store_metadata(c2, TargetsPath, version,
                                        unwrap(signed_targets), failing),
                  OkTrue)
        ELSE Done(c2, OkFalse)

\* Client::update without its `?` operators: the next step runs whatever
\* the step returned
next_step_ignoring_errors(step, result) ==
    CASE step = "root" -> "timestamp"
      [] step = "timestamp" -> "snapshot"
      [] step = "snapshot" -> "targets"
      [] step = "targets" -> "done"

\* Client::update: the step that follows `step` when it returned `result`;
\* the `?` after each step returns its error from update
next_step(step, result) ==
    IF result \in ClientErrors THEN "done"
    ELSE CASE step = "root" -> "timestamp"
           [] step = "timestamp" -> "snapshot"
           [] step = "snapshot" -> "targets"
           [] step = "targets" -> "done"

\* Client::update: Ok(r || ts || sn || ta), or the error of the failed step
update_result(steps) ==
    IF \E i \in 1..Len(steps) : steps[i] \in ClientErrors
    THEN steps[CHOOSE i \in 1..Len(steps) : steps[i] \in ClientErrors]
    ELSE IF \E i \in 1..Len(steps) : steps[i] = OkTrue
    THEN OkTrue
    ELSE OkFalse


----------------------------------------------------------------------------
(* The repositories a client is given *)

\* every role of a client root has the one key `k`
ClientKeying(k) ==
    [root |-> RoleDefinition(1, {k}), snapshot |-> RoleDefinition(1, {k}),
     targets |-> RoleDefinition(1, {k}), timestamp |-> RoleDefinition(1, {k})]

ClientRoot(version, expires, k) == RootMetadata(version, expires, ClientKeying(k))

\* the root chain of the remote: version 1 has the key K0, versions 2 and
\* up rotate to K1; version 2 is signed by `signatures`
ChainRoot(i, expires, signatures) ==
    IF i = 1 THEN Raw({"K0"}, ClientRoot(1, expires, "K0"))
    ELSE IF i = 2 THEN Raw(signatures, ClientRoot(2, MaxTime + 1, "K1"))
    ELSE Raw({"K1"}, ClientRoot(i, expires, "K1"))

ClientTimestamp ==
    [version |-> 1, expires |-> MaxTime + 1, snapshot |-> MetadataDescription(1)]
ClientSnapshot ==
    [version |-> 1, expires |-> MaxTime + 1,
     meta |-> (TargetsPath :> MetadataDescription(1))]
ClientTargets ==
    [version |-> 1, expires |-> MaxTime + 1, targets |-> (PathF :> "x"),
     delegations |-> None]

\* Repository::store_metadata of an optional entry
Put(repo, path, version, o) ==
    IF is_some(o) THEN store_metadata(repo, path, version, unwrap(o)) ELSE repo

RECURSIVE PutRoots(_, _, _)
PutRoots(repo, roots, i) ==
    IF i > MaxRootVersion THEN repo
    ELSE PutRoots(Put(repo, RootPath, Number(i), roots[i]), roots, i + 1)

\* the remotes: each versioned root is there or missing, version 2 is cross
\* signed by K0 or not, the unversioned root is a copy of one of the chain or
\* missing, and timestamp, snapshot and targets are there (signed by both
\* keys, or the timestamp by none) or missing
Remotes ==
    { Put(Put(Put(Put(PutRoots(EmptyMap, roots, 1),
                      RootPath, Unversioned, latest),
                  TimestampPath, Unversioned, ts),
              SnapshotPath, Unversioned, sn),
          TargetsPath, Unversioned, ta) :
        roots \in {[i \in 1..MaxRootVersion |->
                      IF i \in present THEN Some(ChainRoot(i, e[i], s2)) ELSE None] :
                   present \in SUBSET (1..MaxRootVersion),
                   e \in [1..MaxRootVersion -> ExpiresValues],
                   s2 \in {{"K0", "K1"}, {"K1"}}},
        latest \in {None} \cup {Some(ChainRoot(i, e, {"K0", "K1"})) :
                                 i \in 1..MaxRootVersion, e \in ExpiresValues},
        ts \in {None, Some(Raw(KeyIds, ClientTimestamp)), Some(Raw({}, ClientTimestamp))},
        sn \in {None, Some(Raw(KeyIds, ClientSnapshot))},
        ta \in {None, Some(Raw(KeyIds, ClientTargets))} }

\* the local repository starts empty or with the version 1 root
Locals ==
    {EmptyMap, store_metadata(EmptyMap, RootPath, Number(1), ChainRoot(1, MaxTime + 1, {}))}

\* the pinned keys: the key of root 1, or a key that did not sign it
PinnedKeys == {{"K0"}, {"K1"}}

\* the entries a client stores, and the sets of them a local repository may
\* fail to store during one step
StoreKeys ==
    {<<RootPath, Number(i)>> : i \in 1..MaxRootVersion}
        \cup {<<RootPath, Unversioned>>, <<TimestampPath, Number(1)>>,
              <<SnapshotPath, Unversioned>>, <<TargetsPath, Unversioned>>}

StoreFailures == {{}, StoreKeys} \cup {{k} : k \in StoreKeys}

----------------------------------------------------------------------------
(* The client as a state machine *)

\* the fields of the client the steps work on
Cl == [tuf |-> tuf, local |-> client.local, events |-> client.events]

\* nothing is trusted before the client is constructed
InitClient ==
    /\ promoted_snapshot = 0
    /\ tuf = None
    /\ now = 0
    /\ pc = "idle"
    /\ call = NoCall
    /\ pre = None
    /\ VerifyIdle
    /\ MetadataIdle
    /\ \E remote \in Remotes, local \in Locals, trusted_root_keys \in PinnedKeys :
          client = [NoClient EXCEPT !.remote = remote, !.local = local,
                                    !.trusted_root_keys = trusted_root_keys]

\* Client::with_root_pinned
ClientWithRootPinned ==
    /\ client.pc = "none"
    /\ \E failing \in StoreFailures :
          LET r == with_root_pinned(Cl, client.remote, client.trusted_root_keys, failing)
          IN  /\ tuf' = r.c.tuf
              /\ client' = [client EXCEPT
                               !.pc = IF r.result \in ClientErrors THEN "failed" ELSE "ready",
                               !.local = r.c.local,
                               !.events = r.c.events,
                               !.result = r.result]
    /\ UNCHANGED <<now, pc, call, pre, v_sigs, v_threshold, v_keys, v_result, metadataVars, promoted_snapshot>>

\* Client::update is called
ClientUpdate ==
    /\ client.pc \in {"ready", "done"}
    /\ client' = [client EXCEPT !.pc = "root", !.events = <<>>, !.steps = <<>>,
                                !.result = ""]
    /\ UNCHANGED <<tuf, now, pc, call, pre, v_sigs, v_threshold, v_keys, v_result, metadataVars, promoted_snapshot>>

\* a step of Client::update returned `r`
Stepped(step, r) ==
    LET steps == Append(client.steps, r.result)
        next == next_step(step, r.result)
    IN  /\ tuf' = r.c.tuf
        /\ client' = [client EXCEPT
                         !.pc = next,
                         !.local = r.c.local,
                         !.events = r.c.events,
                         !.steps = steps,
                         !.at = now,
                         !.result = IF next = "done" THEN update_result(steps) ELSE ""]
        /\ pre' = tuf
        /\ UNCHANGED <<now, pc, call, v_sigs, v_threshold, v_keys, v_result, metadataVars, promoted_snapshot>>

ClientUpdateRoot ==
    /\ client.pc = "root"
    /\ \E failing \in StoreFailures :
          Stepped("root", client_update_root(Cl, client.remote, now, failing))

ClientUpdateTimestamp ==
    /\ client.pc = "timestamp"
    /\ \E failing \in StoreFailures :
          Stepped("timestamp", client_update_timestamp(Cl, client.remote, now, failing))

ClientUpdateSnapshot ==
    /\ client.pc = "snapshot"
    /\ \E failing \in StoreFailures :
          Stepped("snapshot", client_update_snapshot(Cl, client.remote, now, failing))

ClientUpdateTargets ==
    /\ client.pc = "targets"
    /\ \E failing \in StoreFailures :
          Stepped("targets", client_update_targets(Cl, client.remote, now, failing))

NextClient ==
    \/ ClientWithRootPinned
    \/ ClientUpdate
    \/ ClientUpdateRoot
    \/ ClientUpdateTimestamp
    \/ ClientUpdateSnapshot
    \/ ClientUpdateTargets
    \/ Tick

SpecClient == InitClient /\ [][NextClient]_vars


----------------------------------------------------------------------------
(* Claims about Client::update *)

\* the steps of a round, in the order of Client::update
StepNames == <<"root", "timestamp", "snapshot", "targets">>

\* the step that works on the metadata at `path`
StepOf(path) == CHOOSE i \in 1..Len(StepNames) : StepNames[i] = path

InRound == client.pc \in {"root", "timestamp", "snapshot", "targets", "done"}

Failed(steps) == \E i \in 1..Len(steps) : steps[i] \in ClientErrors

\* C16: a round of Client::update runs root, timestamp, snapshot, targets in
\* that order; a step runs only after every step before it returned Ok; once
\* a step fails the round is over with that error and no call (fetch, trust
\* store update, store) of a later step is made; a round of four successful
\* steps returns Ok(true) iff one of them returned Ok(true)
C16_RoundOrdered ==
    InRound =>
        LET steps == client.steps
            events == client.events
            ran == Len(steps)
        IN  /\ ran <= Len(StepNames)
            /\ \A i \in 1..Len(events) : StepOf(events[i].path) <= ran
            /\ \A i \in 1..(Len(events) - 1) :
                  StepOf(events[i].path) <= StepOf(events[i + 1].path)
            /\ \A i \in 1..(ran - 1) : steps[i] \notin ClientErrors
            /\ client.pc # "done" =>
                  /\ ~Failed(steps)
                  /\ client.pc = StepNames[ran + 1]
                  /\ client.result = ""
            /\ client.pc = "done" =>
                  IF Failed(steps)
                  THEN client.result = steps[ran]
                  ELSE /\ ran = Len(StepNames)
                       /\ client.result \in {OkTrue, OkFalse}
                       /\ client.result = OkTrue <=> \E i \in 1..ran : steps[i] = OkTrue

\* a round that the snapshot step aborted after the timestamp was updated
C16_Witness ==
    /\ client.pc = "done"
    /\ Len(client.steps) = 3
    /\ client.steps[1] = OkFalse
    /\ client.steps[2] = OkTrue
    /\ client.steps[3] = NotFound
    /\ client.result = NotFound
    /\ \E i \in 1..Len(client.events) : client.events[i].op = "tuf.update_timestamp"

\* a whole round in which only the root step found nothing new
C16_FullRound ==
    /\ client.pc = "done"
    /\ client.steps = <<OkFalse, OkTrue, OkTrue, OkTrue>>
    /\ client.result = OkTrue


\* the root step of the round has just returned
RootStepReturned == InRound /\ Len(client.steps) = 1

\* the root the remote holds unversioned, and the versions of the walk
LatestRoot == fetch_metadata(client.remote, RootPath, Unversioned)
V0 == pre.trusted_root.version
V == unwrap(LatestRoot).metadata.version

\* the root the walk takes for version i: the trusted one at V0, the remote's
\* version i in between, the unversioned one at V
WalkedRoot(i) ==
    IF i = V0 THEN Some(Raw({}, pre.trusted_root))
    ELSE IF i = V THEN LatestRoot
    ELSE fetch_metadata(client.remote, RootPath, Number(i))

\* `raw_root` is signed by a threshold of the root keys of `predecessor` and
\* by a threshold of its own root keys
CrossSigned(raw_root, predecessor) ==
    /\ verify_signatures(raw_root, predecessor.root.threshold, root_keys(predecessor))
    /\ verify_signatures(raw_root, raw_root.metadata.root.threshold,
                         root_keys(raw_root.metadata))

\* the remote holds a chain of cross-signed roots from V0 + 1 to V > V0
ChainToWalk ==
    /\ RootStepReturned
    /\ is_some(LatestRoot)
    /\ V > V0
    /\ \A i \in (V0 + 1)..V :
          /\ is_some(WalkedRoot(i))
          /\ unwrap(WalkedRoot(i)).metadata.version = i
          /\ CrossSigned(unwrap(WalkedRoot(i)), unwrap(WalkedRoot(i - 1)).metadata)

\* the versions of the roots passed to the trust store, in the order passed
RECURSIVE PassedRoots(_)
PassedRoots(events) ==
    IF events = <<>> THEN <<>>
    ELSE IF Head(events).op = "tuf.update_root"
    THEN <<unwrap(Head(events).version)>> \o PassedRoots(Tail(events))
    ELSE PassedRoots(Tail(events))

\* the trusted root is at V and the roots V0+1..V were passed in that order
WalkedToLatest ==
    /\ tuf.trusted_root = unwrap(LatestRoot).metadata
    /\ PassedRoots(client.events) = [i \in 1..(V - V0) |-> V0 + i]

\* the local repository holds every walked root under its number and the
\* latest also unversioned
LocalHoldsWalk ==
    /\ \A i \in (V0 + 1)..V :
          fetch_metadata(client.local, RootPath, Number(i)) = WalkedRoot(i)
    /\ fetch_metadata(client.local, RootPath, Unversioned) = LatestRoot

\* the local repository failed to store something during the step
StoreFailed ==
    \E i \in 1..Len(client.events) :
        /\ client.events[i].op = "local.store_metadata"
        /\ client.events[i].result \in ClientErrors

RootStepFinished ==
    /\ RootStepReturned
    /\ client.steps[1] \in {OkTrue, OkFalse, ExpiredMetadata("Root")}

\* C18: when the root step finishes its comparison or walk with a trusted
\* root that expires at or before now, the root step fails with
\* ExpiredMetadata(Root) and the round is over, so that no timestamp step runs
C18_ExpiredRootFailsRootStep ==
    (RootStepFinished /\ tuf.trusted_root.expires <= client.at) =>
        /\ client.steps[1] = ExpiredMetadata("Root")
        /\ client.pc = "done"
        /\ client.result = ExpiredMetadata("Root")


\* the step that returned last, and the calls it made
LastStep == StepNames[Len(client.steps)]

LastStepEvents == SelectSeq(client.events, LAMBDA e : e.path = LastStep)

\* the local repository failed to store something during the last step
LastStepStoreFailed ==
    \E i \in 1..Len(LastStepEvents) :
        /\ LastStepEvents[i].op = "local.store_metadata"
        /\ LastStepEvents[i].result \in ClientErrors

\* what the last step returns, from the trust store it started with and at
\* the time it ran, when the local repository stores everything
WithoutStoreFailure ==
    LET c == [tuf |-> pre, local |-> EmptyMap, events |-> <<>>]
    IN  CASE LastStep = "root" -> client_update_root(c, client.remote, client.at, {})
          [] LastStep = "timestamp" -> client_update_timestamp(c, client.remote, client.at, {})
          [] LastStep = "snapshot" -> client_update_snapshot(c, client.remote, client.at, {})
          [] LastStep = "targets" -> client_update_targets(c, client.remote, client.at, {})

\* C19: a step of Client::update during which a local store_metadata call
\* failed returns what it returns when every store succeeds, and leaves the
\* trust store it leaves then: the metadata is trusted although not persisted
C19_StoreFailureIsIgnored ==
    (InRound /\ Len(client.steps) >= 1 /\ LastStepStoreFailed) =>
        /\ client.steps[Len(client.steps)] = WithoutStoreFailure.result
        /\ tuf = WithoutStoreFailure.c.tuf

\* the timestamp step reports an update, the timestamp is trusted, and the
\* local repository failed to store it
C19_Witness ==
    /\ InRound
    /\ Len(client.steps) = 2
    /\ LastStepStoreFailed
    /\ client.steps[2] = OkTrue
    /\ is_none(pre.trusted_timestamp)
    /\ is_some(tuf.trusted_timestamp)
    /\ is_none(fetch_metadata(client.local, TimestampPath, Number(1)))


----------------------------------------------------------------------------
(* Claims about Client::with_root_pinned *)

\* with_root_pinned returned and root version 1 was missing locally
BootstrappedFromRemote ==
    /\ client.pc \in {"ready", "failed"}
    /\ client.events # <<>>
    /\ client.events[1] = Event("local.fetch_metadata", RootPath, Number(1), NotFound)

\* the position of the first call of `op` among the calls made, 0 if none
FirstCall(op) ==
    IF \E i \in 1..Len(client.events) : client.events[i].op = op
    THEN CHOOSE i \in 1..Len(client.events) :
            /\ client.events[i].op = op
            /\ \A j \in 1..(i - 1) : client.events[j].op # op
    ELSE 0

\* C20: when root version 1 is missing locally, with_root_pinned verifies
\* the root fetched from the remote against the pinned keys before it stores
\* it, and a root that fails the verification is not in the local repository
C20_VerifiedBeforePersisted ==
    BootstrappedFromRemote =>
        /\ FirstCall("local.store_metadata") # 0 =>
              /\ FirstCall("Tuf::from_root_pinned") # 0
              /\ FirstCall("Tuf::from_root_pinned") < FirstCall("local.store_metadata")
        /\ client.result = VerificationFailure =>
              is_none(fetch_metadata(client.local, RootPath, Number(1)))


----------------------------------------------------------------------------
(* Claims about the dependent slots of the trust store *)

\* the targets entry of the snapshot presented
CandidateTargetsEntry == get(Candidate.meta, TargetsPath)

\* C22: a successful update_timestamp whose timestamp declares a snapshot
\* version other than the trusted snapshot's leaves no trusted snapshot, and
\* leaves the trusted snapshot as it was when the versions are equal; a
\* successful update_snapshot whose targets entry declares a version other
\* than the trusted targets' leaves no trusted targets, and leaves the trusted
\* targets as they were when the versions are equal
C22_DependentSlotInvalidated ==
    /\ (Called("update_timestamp") /\ call.result = OkSome) =>
          IF Candidate.snapshot.version # trusted_snapshot_version(pre)
          THEN is_none(tuf.trusted_snapshot)
          ELSE tuf.trusted_snapshot = pre.trusted_snapshot
    /\ (Called("update_snapshot") /\ call.result = OkTrue
            /\ is_some(CandidateTargetsEntry)) =>
          IF unwrap(CandidateTargetsEntry).version # trusted_targets_version(pre)
          THEN is_none(tuf.trusted_targets)
          ELSE tuf.trusted_targets = pre.trusted_targets

\* a trusted snapshot forgotten by a timestamp that declares a newer one
C22_Witness ==
    /\ Called("update_timestamp")
    /\ call.result = OkSome
    /\ is_some(pre.trusted_snapshot)
    /\ Candidate.snapshot.version # trusted_snapshot_version(pre)
    /\ is_none(tuf.trusted_snapshot)

\* trusted targets forgotten by a snapshot that declares other targets
C22_TargetsForgotten ==
    /\ Called("update_snapshot")
    /\ call.result = OkTrue
    /\ is_some(pre.trusted_targets)
    /\ is_some(CandidateTargetsEntry)
    /\ is_none(tuf.trusted_targets)

\* trusted targets kept by a snapshot that declares their version
C22_TargetsKept ==
    /\ Called("update_snapshot")
    /\ call.result = OkTrue
    /\ is_some(pre.trusted_targets)
    /\ tuf.trusted_targets = pre.trusted_targets


\* the delegated role `role`, trusted before the call, is newer than the
\* snapshot presented declares it
NewerThanDeclared(role) ==
    /\ role \in DOMAIN Candidate.meta
    /\ pre.trusted_delegations[role].version > Candidate.meta[role].version

\* C23: after a successful update_snapshot the trusted delegations are those
\* trusted before, unchanged, without the ones whose version is greater than
\* the version the new snapshot declares for their role
C23_NewerDelegationsPurged ==
    (Called("update_snapshot") /\ call.result = OkTrue) =>
        /\ tuf.trusted_snapshot = Some(Candidate)
        /\ DOMAIN tuf.trusted_delegations =
              {role \in DOMAIN pre.trusted_delegations : ~NewerThanDeclared(role)}
        /\ \A role \in DOMAIN tuf.trusted_delegations :
              tuf.trusted_delegations[role] = pre.trusted_delegations[role]

\* the trusted delegation A, newer than the new snapshot declares, is purged
C23_Witness ==
    /\ Called("update_snapshot")
    /\ call.result = OkTrue
    /\ "A" \in DOMAIN pre.trusted_delegations
    /\ NewerThanDeclared("A")
    /\ "A" \notin DOMAIN tuf.trusted_delegations

\* a trusted delegation at the declared version, and one the new snapshot
\* does not list, are kept
C23_KeptAtVersion ==
    /\ Called("update_snapshot")
    /\ call.result = OkTrue
    /\ "A" \in DOMAIN pre.trusted_delegations
    /\ "A" \in DOMAIN Candidate.meta
    /\ "A" \in DOMAIN tuf.trusted_delegations

C23_KeptUnlisted ==
    /\ Called("update_snapshot")
    /\ call.result = OkTrue
    /\ "A" \in DOMAIN pre.trusted_delegations
    /\ "A" \notin DOMAIN Candidate.meta
    /\ "A" \in DOMAIN tuf.trusted_delegations


----------------------------------------------------------------------------
(* SignedMetadata::new, add_signature and merge_signatures *)

\* number of calls made on one SignedMetadata
MaxCalls == 4

\* the private keys, identified with their KeyIds
PrivateKeys == KeyIds \cup {"K2", "K3"}

\* PrivateKey::sign over the canonical bytes of the metadata
sign(private_key) == Signature(private_key, TRUE)

\* the KeyIds of a signature list
key_ids_of(signatures) == {signatures[i].key_id : i \in 1..Len(signatures)}

\* SignedMetadata::new: signatures: vec![sig]
new_signatures(private_key) == <<sign(private_key)>>

\* an add_signature that only pushes the new signature
add_signature_push(signatures, private_key) == Append(signatures, sign(private_key))

\* SignedMetadata::add_signature: retain the signatures of the other keys,
\* then push the new one
add_signature(signatures, private_key) ==
    Append(SelectSeq(signatures, LAMBDA s : s.key_id # private_key),
           sign(private_key))

\* SignedMetadata::merge_signatures of equal metadata: extend with the
\* signatures of `other` whose key has no signature in `self`
merge_signatures(signatures, other) ==
    signatures \o SelectSeq(other, LAMBDA s : s.key_id \notin key_ids_of(signatures))

\* the other copies of the metadata: signed by one key, or by one and then
\* by another
OtherSigned ==
    {new_signatures(k) : k \in PrivateKeys}
        \cup {add_signature(new_signatures(k), l) : k, l \in PrivateKeys}

\* a SignedMetadata after a call: its signatures, the keys that signed it so
\* far, the call and the number of signatures before the call
SignedAfter(signatures, signers, op, key, before, calls) ==
    Some([signatures |-> signatures, signers |-> signers, op |-> op, key |-> key,
          before |-> before, calls |-> calls])

InitSign ==
    /\ TufIdle
    /\ VerifyIdle
    /\ MetadataIdle

SignedNew ==
    /\ is_none(signed)
    /\ \E private_key \in PrivateKeys :
          signed' = SignedAfter(new_signatures(private_key), {private_key},
                                "new", private_key, 0, 1)
    /\ UNCHANGED <<tufVars, verifyVars, client, m_arg, m_ret, promoted_snapshot>>

AddSignature ==
    /\ is_some(signed)
    /\ unwrap(signed).calls < MaxCalls
    /\ \E private_key \in PrivateKeys :
          LET self == unwrap(signed)
          IN  signed' = SignedAfter(add_signature(self.signatures, private_key),
                                    self.signers \cup {private_key},
                                    "add_signature", private_key,
                                    Len(self.signatures), self.calls + 1)
    /\ UNCHANGED <<tufVars, verifyVars, client, m_arg, m_ret, promoted_snapshot>>

MergeSignatures ==
    /\ is_some(signed)
    /\ unwrap(signed).calls < MaxCalls
    /\ \E other \in OtherSigned :
          LET self == unwrap(signed)
          IN  signed' = SignedAfter(merge_signatures(self.signatures, other),
                                    self.signers \cup key_ids_of(other),
                                    "merge_signatures", "",
                                    Len(self.signatures), self.calls + 1)
    /\ UNCHANGED <<tufVars, verifyVars, client, m_arg, m_ret, promoted_snapshot>>

NextSign ==
    \/ SignedNew
    \/ AddSignature
    \/ MergeSignatures

SpecSign == InitSign /\ [][NextSign]_vars

\* C24: a SignedMetadata made by new, add_signature and merge_signatures has
\* at most one signature per KeyId, as many signatures as distinct keys
\* signed it, and an add_signature by a key that had already signed leaves
\* the number of signatures as it was
C24_OneSignaturePerKey ==
    is_some(signed) =>
        LET self == unwrap(signed)
            signatures == self.signatures
        IN  /\ \A i, j \in 1..Len(signatures) :
                  signatures[i].key_id = signatures[j].key_id => i = j
            /\ Len(signatures) = Cardinality(self.signers)
            /\ key_ids_of(signatures) = self.signers
            /\ (self.op = "add_signature"
                    /\ Cardinality(self.signers) = self.before) =>
                  Len(signatures) = self.before

\* K0 signs again after K0 and K1 signed: two signatures, K0's the last
C24_Witness ==
    /\ is_some(signed)
    /\ unwrap(signed).op = "add_signature"
    /\ unwrap(signed).key = "K0"
    /\ unwrap(signed).before = 2
    /\ unwrap(signed).signatures = <<sign("K1"), sign("K0")>>
    /\ unwrap(signed).signers = {"K0", "K1"}


----------------------------------------------------------------------------
(* safe_path and the constructors of MetadataPath, VirtualTargetPath and
   TargetPath.  A string is the sequence of its characters; a control
   character is written U+nnnn *)

\* longest string given to a path constructor
MaxPathLen == 5

IllegalArgument == "Err(IllegalArgument)"

PATH_ILLEGAL_COMPONENTS == {<<".">>, <<".", ".">>}

PATH_ILLEGAL_COMPONENTS_CASE_INSENSITIVE ==
    { <<"C", "O", "N">>,
      <<"P", "R", "N">>,
      <<"A", "U", "X">>,
      <<"N", "U", "L">>,
      <<"C", "O", "M", "1">>,
      <<"C", "O", "M", "2">>,
      <<"C", "O", "M", "3">>,
      <<"C", "O", "M", "4">>,
      <<"C", "O", "M", "5">>,
      <<"C", "O", "M", "6">>,
      <<"C", "O", "M", "7">>,
      <<"C", "O", "M", "8">>,
      <<"C", "O", "M", "9">>,
      <<"L", "P", "T", "1">>,
      <<"L", "P", "T", "2">>,
      <<"L", "P", "T", "3">>,
      <<"L", "P", "T", "4">>,
      <<"L", "P", "T", "5">>,
      <<"L", "P", "T", "6">>,
      <<"L", "P", "T", "7">>,
      <<"L", "P", "T", "8">>,
      <<"L", "P", "T", "9">>,
      <<"K", "E", "Y", "B", "D", "$">>,
      <<"C", "L", "O", "C", "K", "$">>,
      <<"S", "C", "R", "E", "E", "N", "$">>,
      <<"$", "I", "D", "L", "E", "$">>,
      <<"C", "O", "N", "F", "I", "G", "$">> }

PATH_ILLEGAL_STRINGS ==
    { ":", "\\", "<", ">", "\"", "|", "?", "*",
       "U+0000", "U+0001", "U+0002", "U+0003", "U+0004", "U+0005",
       "U+0006", "U+0007", "U+0008", "U+0009", "U+000A", "U+000B",
       "U+000C", "U+000D", "U+000E", "U+000F", "U+0010", "U+0011",
       "U+0012", "U+0013", "U+0014", "U+0015", "U+0016", "U+0017",
       "U+0018", "U+0019", "U+001A", "U+001B", "U+001C", "U+001D",
       "U+001E", "U+001F", "U+007F" }

UpperCaseLetters == <<"A", "B", "C", "D", "E", "F", "G", "H", "I", "J", "K", "L", "M", 
                      "N", "O", "P", "Q", "R", "S", "T", "U", "V", "W", "X", "Y", "Z">>
LowerCaseLetters == <<"a", "b", "c", "d", "e", "f", "g", "h", "i", "j", "k", "l", "m", 
                      "n", "o", "p", "q", "r", "s", "t", "u", "v", "w", "x", "y", "z">>

\* char::to_lowercase and str::to_lowercase
char_to_lowercase(c) ==
    IF \E i \in 1..Len(UpperCaseLetters) : UpperCaseLetters[i] = c
    THEN LowerCaseLetters[CHOOSE i \in 1..Len(UpperCaseLetters) : UpperCaseLetters[i] = c]
    ELSE c

to_lowercase(s) == [i \in 1..Len(s) |-> char_to_lowercase(s[i])]

\* str::split('/'): the components between the slashes, empty ones included
RECURSIVE split(_, _)
split(s, component) ==
    IF s = <<>> THEN <<component>>
    ELSE IF Head(s) = "/" THEN <<component>> \o split(Tail(s), <<>>)
    ELSE split(Tail(s), Append(component, Head(s)))

\* safe_path: the lower-cased component is compared with the names of the
\* table as they are written there
safe_path(path) ==
    LET components == split(path, <<>>)
    IN  IF path = <<>>
        THEN IllegalArgument
        ELSE IF Head(path) = "/"
        THEN IllegalArgument
        ELSE IF \E i \in 1..Len(path) : path[i] \in PATH_ILLEGAL_STRINGS
        THEN IllegalArgument
        ELSE IF \E i \in 1..Len(components) :
                    \/ components[i] \in PATH_ILLEGAL_COMPONENTS
                    \/ to_lowercase(components[i])
                          \in PATH_ILLEGAL_COMPONENTS_CASE_INSENSITIVE
        THEN IllegalArgument
        ELSE "Ok(())"

\* MetadataPath::new, VirtualTargetPath::new, TargetPath::new: the path type
\* around the string when safe_path accepts it
path_new(type, path) ==
    IF safe_path(path) = IllegalArgument
    THEN [result |-> IllegalArgument, type |-> type, value |-> <<>>]
    ELSE [result |-> "Ok", type |-> type, value |-> path]

\* the characters of the strings given to the constructors
PathChars == {"c", "C", "o", "O", "n", "N", "/", ".", ":"}

PathStrings == UNION {[1..len -> PathChars] : len \in 0..MaxPathLen}

InitPath ==
    /\ TufIdle
    /\ VerifyIdle
    /\ signed = None
    /\ m_arg \in PathStrings
    /\ m_ret = None

PathNew(type) ==
    /\ m_ret = None
    /\ m_ret' = Some(path_new(type, m_arg))
    /\ UNCHANGED <<tufVars, verifyVars, client, signed, m_arg, promoted_snapshot>>

MetadataPathNew == PathNew("MetadataPath")
VirtualTargetPathNew == PathNew("VirtualTargetPath")
TargetPathNew == PathNew("TargetPath")

NextPath ==
    \/ MetadataPathNew
    \/ VirtualTargetPathNew
    \/ TargetPathNew

SpecPath == InitPath /\ [][NextPath]_vars


\* the components of the string given to the constructor
ArgComponents == split(m_arg, <<>>)

\* `component` is a Windows device name, letter case ignored
IsDeviceName(component) ==
    \E name \in PATH_ILLEGAL_COMPONENTS_CASE_INSENSITIVE :
        to_lowercase(component) = to_lowercase(name)

\* the string is one the constructors have to refuse
IllegalPath ==
    \/ m_arg = <<>>
    \/ Head(m_arg) = "/"
    \/ \E i \in 1..Len(ArgComponents) : ArgComponents[i] \in {<<".">>, <<".", ".">>}
    \/ \E i \in 1..Len(m_arg) : m_arg[i] \in PATH_ILLEGAL_STRINGS
    \/ \E i \in 1..Len(ArgComponents) : IsDeviceName(ArgComponents[i])

\* C25: MetadataPath::new, VirtualTargetPath::new and TargetPath::new fail
\* with IllegalArgument for a string that is empty, starts with '/', has a
\* component '.' or '..', contains an illegal character or has a component
\* that is a device name in any letter case; for every other string they
\* succeed and value() is the string
C25_PathSafety ==
    is_some(m_ret) =>
        IF IllegalPath
        THEN unwrap(m_ret).result = IllegalArgument
        ELSE unwrap(m_ret).result = "Ok" /\ unwrap(m_ret).value = m_arg

\* everything of C25 but the device names holds
C25_PathSafetyButDeviceNames ==
    (is_some(m_ret) /\ \A i \in 1..Len(ArgComponents) : ~IsDeviceName(ArgComponents[i])) =>
        IF IllegalPath
        THEN unwrap(m_ret).result = IllegalArgument
        ELSE unwrap(m_ret).result = "Ok" /\ unwrap(m_ret).value = m_arg


----------------------------------------------------------------------------
(* RoleDefinition::new, RootMetadata::new and RootMetadataBuilder::build *)

\* RoleDefinition::new
role_definition_new(threshold, key_ids) ==
    IF threshold < 1 THEN None
    ELSE IF key_ids = {} THEN None
    ELSE IF Cardinality(key_ids) < threshold THEN None
    ELSE Some(RoleDefinition(threshold, key_ids))

\* the value a constructor returns
Constructed(result, value) == [result |-> result, value |-> value]

\* RootMetadata::new: the only check is on the version
root_metadata_new(version, expires, keys, root, snapshot, targets, timestamp) ==
    IF version < 1
    THEN Constructed(IllegalArgument, None)
    ELSE Constructed("Ok", Some([version |-> version, expires |-> expires, keys |-> keys,
                                 root |-> root, snapshot |-> snapshot,
                                 targets |-> targets, timestamp |-> timestamp]))

\* RootMetadataBuilder::build: root_key, snapshot_key, targets_key and
\* timestamp_key have put each key both in `keys` and in the key ids of its role
root_metadata_builder_build(b) ==
    LET keys == b.root_key_ids \cup b.snapshot_key_ids
                    \cup b.targets_key_ids \cup b.timestamp_key_ids
        root == role_definition_new(b.root_threshold, b.root_key_ids)
        snapshot == role_definition_new(b.snapshot_threshold, b.snapshot_key_ids)
        targets == role_definition_new(b.targets_threshold, b.targets_key_ids)
        timestamp == role_definition_new(b.timestamp_threshold, b.timestamp_key_ids)
    IN  IF is_none(root) \/ is_none(snapshot) \/ is_none(targets) \/ is_none(timestamp)
        THEN Constructed(IllegalArgument, None)
        ELSE root_metadata_new(b.version, b.expires, keys, unwrap(root),
                               unwrap(snapshot), unwrap(targets), unwrap(timestamp))

\* the role definitions RoleDefinition::new accepts
RoleDefinitions ==
    {unwrap(role_definition_new(threshold, key_ids)) :
        <<threshold, key_ids>> \in
            {tk \in (0..Cardinality(KeyIds)) \X SUBSET KeyIds :
                is_some(role_definition_new(tk[1], tk[2]))}}

\* the arguments of RootMetadata::new
RootNewArgs ==
    [op : {"RootMetadata::new"}, version : 0..MaxVersion, expires : {MaxTime + 1},
     keys : SUBSET KeyIds, root : RoleDefinitions, snapshot : RoleDefinitions,
     targets : RoleDefinitions, timestamp : RoleDefinitions]

\* the builders: a version, and for every role a threshold and the keys added
RootBuilders ==
    [op : {"RootMetadataBuilder::build"}, version : 0..MaxVersion, expires : {MaxTime + 1},
     root_threshold : 0..1, root_key_ids : SUBSET KeyIds,
     snapshot_threshold : 1..Cardinality(KeyIds), snapshot_key_ids : SUBSET KeyIds,
     targets_threshold : {1}, targets_key_ids : SUBSET KeyIds,
     timestamp_threshold : {1}, timestamp_key_ids : SUBSET KeyIds]

InitRoot ==
    /\ TufIdle
    /\ VerifyIdle
    /\ signed = None
    /\ m_arg \in RootNewArgs \/ m_arg \in RootBuilders
    /\ m_ret = None

RootMetadataNew ==
    /\ m_ret = None
    /\ m_arg.op = "RootMetadata::new"
    /\ m_ret' = Some(root_metadata_new(m_arg.version, m_arg.expires, m_arg.keys,
                                       m_arg.root, m_arg.snapshot, m_arg.targets,
                                       m_arg.timestamp))
    /\ UNCHANGED <<tufVars, verifyVars, client, signed, m_arg, promoted_snapshot>>

RootMetadataBuilderBuild ==
    /\ m_ret = None
    /\ m_arg.op = "RootMetadataBuilder::build"
    /\ m_ret' = Some(root_metadata_builder_build(m_arg))
    /\ UNCHANGED <<tufVars, verifyVars, client, signed, m_arg, promoted_snapshot>>

NextRoot ==
    \/ RootMetadataNew
    \/ RootMetadataBuilderBuild

SpecRoot == InitRoot /\ [][NextRoot]_vars

\* the key ids the role definitions of `root` list
ReferencedKeyIds(root) ==
    root.root.key_ids \cup root.snapshot.key_ids
        \cup root.targets.key_ids \cup root.timestamp.key_ids

\* the role definitions given to the constructor list a key that is not
\* among the keys given to it
ReferencesMissingKey ==
    /\ m_arg.op = "RootMetadata::new"
    /\ ~(ReferencedKeyIds(m_arg) \subseteq m_arg.keys)

\* C26: every root that RootMetadata::new or the builder returns has the
\* key ids of its four role definitions among its keys, and construction
\* fails when a role definition lists a key id that is not among the keys
C26_RootKeyClosure ==
    is_some(m_ret) =>
        /\ unwrap(m_ret).result = "Ok" =>
              ReferencedKeyIds(unwrap(unwrap(m_ret).value))
                  \subseteq unwrap(unwrap(m_ret).value).keys
        /\ ReferencesMissingKey => unwrap(m_ret).result = IllegalArgument

\* the roots the builder returns have the key ids of their roles among
\* their keys
C26_BuilderKeyClosure ==
    (is_some(m_ret) /\ m_arg.op = "RootMetadataBuilder::build"
        /\ unwrap(m_ret).result = "Ok") =>
        ReferencedKeyIds(unwrap(unwrap(m_ret).value))
            \subseteq unwrap(unwrap(m_ret).value).keys


----------------------------------------------------------------------------
(* The root step against a remote that publishes between the rounds.  The  *)
(* client is constructed against a remote with root 1 only; between two     *)
(* rounds the remote replaces its roots: it moves on along the chain, goes  *)
(* back to an older root, drops a versioned root or serves an unsigned one. *)

\* the roots a remote serves unversioned: a root of the chain, signed by
\* both keys or by none
PublishedLatest ==
    {Raw(signatures, ChainRoot(i, MaxTime + 1, {}).metadata) :
        i \in 1..MaxRootVersion, signatures \in {{"K0", "K1"}, {}}}

\* the remotes published: root 1 and any of the later roots under their
\* numbers, version 2 cross signed by K0 or not, one root unversioned, and
\* timestamp, snapshot and targets signed by both keys
PublishedRemotes ==
    { Put(Put(Put(Put(PutRoots(EmptyMap, roots, 1),
                      RootPath, Unversioned, Some(latest)),
                  TimestampPath, Unversioned, Some(Raw(KeyIds, ClientTimestamp))),
              SnapshotPath, Unversioned, Some(Raw(KeyIds, ClientSnapshot))),
          TargetsPath, Unversioned, Some(Raw(KeyIds, ClientTargets))) :
        roots \in {[i \in 1..MaxRootVersion |->
                      IF i = 1 \/ i \in present
                      THEN Some(ChainRoot(i, MaxTime + 1, s2)) ELSE None] :
                   present \in SUBSET (2..MaxRootVersion),
                   s2 \in {{"K0", "K1"}, {"K1"}}},
        latest \in PublishedLatest }

\* the remote the client is constructed against: root 1 only
FirstRemote ==
    CHOOSE remote \in PublishedRemotes :
        /\ \A i \in 2..MaxRootVersion : is_none(fetch_metadata(remote, RootPath, Number(i)))
        /\ fetch_metadata(remote, RootPath, Unversioned) = Some(Raw({"K0", "K1"}, ChainRoot(1, MaxTime + 1, {}).metadata))

InitRootStep ==
    /\ promoted_snapshot = 0
    /\ tuf = None
    /\ now = 0
    /\ pc = "idle"
    /\ call = NoCall
    /\ pre = None
    /\ VerifyIdle
    /\ MetadataIdle
    /\ client = [NoClient EXCEPT !.remote = FirstRemote, !.local = EmptyMap,
                                 !.trusted_root_keys = {"K0"}]

\* the remote publishes between two rounds of the client
RemotePublish ==
    /\ client.pc \in {"ready", "done"}
    /\ \E remote \in PublishedRemotes :
          client' = [client EXCEPT !.pc = "ready", !.remote = remote,
                                   !.events = <<>>, !.steps = <<>>, !.result = ""]
    /\ UNCHANGED <<tuf, now, pc, call, pre, v_sigs, v_threshold, v_keys, v_result, metadataVars, promoted_snapshot>>

NextRootStep ==
    \/ ClientWithRootPinned
    \/ ClientUpdate
    \/ ClientUpdateRoot
    \/ ClientUpdateTimestamp
    \/ ClientUpdateSnapshot
    \/ ClientUpdateTargets
    \/ RemotePublish
    \/ Tick

SpecRootStep == InitRootStep /\ [][NextRootStep]_vars


----------------------------------------------------------------------------
(* C27 *)

\* the root step of a round is taken: before it the client is at the root
\* step, after it the step has returned
RootStepTaken == client.pc = "root" /\ client'.pc # "root"

\* the one call of a root step that stops at the comparison of the versions:
\* the fetch of the unversioned root from the remote
ComparisonOnly ==
    <<Event("remote.fetch_metadata", RootPath, Unversioned, "Ok")>>

\* C27: when the remote's unversioned root declares version V and the trusted
\* root is at V0, the root step fails with VerificationFailure if V < V0, and
\* if V = V0 it returns false having made no call but the fetch of the
\* unversioned root (no versioned root fetched, no update_root), with the
\* trust store and the local repository unchanged
C27_RootStepComparesVersions ==
    [][(RootStepTaken /\ is_some(LatestRoot)) =>
          LET latest_version == unwrap(LatestRoot).metadata.version
              trusted_version == tuf.trusted_root.version
          IN  /\ (latest_version < trusted_version) =>
                    client'.steps = <<VerificationFailure>>
              /\ (latest_version = trusted_version) =>
                    /\ client'.steps = <<OkFalse>>
                    /\ client'.events = ComparisonOnly
                    /\ tuf' = tuf
                    /\ client'.local = client.local]_vars

\* a root step that found the remote at the trusted version 2, in a round
\* after the one that walked there
C27_Witness ==
    /\ RootStepReturned
    /\ is_some(LatestRoot)
    /\ V = V0
    /\ V0 = 2
    /\ client.steps = <<OkFalse>>
    /\ client.events = ComparisonOnly
    /\ tuf = pre

\* a root step that found the remote behind the trusted root
C27_Rollback ==
    /\ RootStepReturned
    /\ is_some(LatestRoot)
    /\ V < V0
    /\ client.steps = <<VerificationFailure>>
    /\ tuf = pre


----------------------------------------------------------------------------
(* C28 *)

\* the remote holds a chain of cross-signed roots from V0 + 1 to k < V, and
\* the root after k is missing or not cross signed
PartialChain(k) ==
    /\ RootStepReturned
    /\ is_some(LatestRoot)
    /\ k > V0
    /\ k < V
    /\ \A i \in (V0 + 1)..k :
          /\ is_some(WalkedRoot(i))
          /\ unwrap(WalkedRoot(i)).metadata.version = i
          /\ CrossSigned(unwrap(WalkedRoot(i)), unwrap(WalkedRoot(i - 1)).metadata)
    /\ \/ is_none(WalkedRoot(k + 1))
       \/ ~CrossSigned(unwrap(WalkedRoot(k + 1)), unwrap(WalkedRoot(k)).metadata)

\* timestamp, snapshot, targets and delegations of the trust store are gone
Purged(t) ==
    /\ is_none(t.trusted_timestamp)
    /\ is_none(t.trusted_snapshot)
    /\ is_none(t.trusted_targets)
    /\ t.trusted_delegations = EmptyMap

----------------------------------------------------------------------------
(* Client::fetch_target and the walk of the delegations it makes.  The      *)
(* delegated metadata is kept by the repositories under the name of the     *)
(* role, unversioned (consistent_snapshot is false), and a target under its *)
(* path.  The hashes of a description are not modelled: a copy that is      *)
(* there is the copy described.                                             *)

\* the bound of the configured max_delegation_depth
MaxDelegationDepth == 2

\* a call of the walk made at recursion depth `depth`
EventAt(depth, op, path, version, result) ==
    [op |-> op, path |-> path, version |-> version, result |-> result, depth |-> depth]

LoggedAt(c, depth, op, path, version, result) ==
    [c EXCEPT !.events = Append(@, EventAt(depth, op, path, version, result))]

\* the string of a path
RECURSIVE path_value(_)
path_value(path) == IF path = <<>> THEN "" ELSE Head(path) \o path_value(Tail(path))

\* Repository::fetch_target, Repository::store_target
fetch_target(repo, target) == get(repo, <<path_value(target), Unversioned>>)
store_target(repo, target, read) == insert(repo, <<path_value(target), Unversioned>>, read)

\* DefaultTranslator::real_to_virtual
real_to_virtual(path) == path_new("VirtualTargetPath", path)

\* the pair lookup_target_description returns, with the client it leaves
Found(c, term, res) == [c |-> c, term |-> term, res |-> res]

\* self, the target, the snapshot and the clock of one walk
Walk(remote, config, target, snapshot, n, failing) ==
    [remote |-> remote, config |-> config, target |-> target, snapshot |-> snapshot,
     n |-> n, failing |-> failing]

\* the fetch of the metadata of a delegated role in the walk: from the local
\* repository, and from the remote when the local one has no copy
fetch_delegation(c, w, current_depth, role) ==
    LET in_local == fetch_metadata(c.local, role, Unversioned)
        c1 == LoggedAt(c, current_depth, "local.fetch_metadata", role, Unversioned,
                       IF is_some(in_local) THEN "Ok" ELSE NotFound)
        in_remote == fetch_metadata(w.remote, role, Unversioned)
    IN  IF is_some(in_local)
        THEN Done(c1, in_local)
        ELSE Done(LoggedAt(c1, current_depth, "remote.fetch_metadata", role, Unversioned,
                           IF is_some(in_remote) THEN "Ok" ELSE NotFound),
                  in_remote)

\* tuf.update_delegation in the walk and the record of the call
tuf_update_delegation(c, w, current_depth, parent_role, role, signed_meta) ==
    LET r == update_delegation(c.tuf, parent_role, role, signed_meta, w.n)
    IN  Done(LoggedAt([c EXCEPT !.tuf = r.tuf], current_depth, "tuf.update_delegation",
                      role, Number(signed_meta.metadata.version), r.result),
             r.result)

\* local.store_metadata in the walk: a failure is logged and otherwise ignored
store_delegation(c, w, current_depth, role, signed_meta) ==
    IF <<role, Unversioned>> \in w.failing
    THEN LoggedAt(c, current_depth, "local.store_metadata", role, Unversioned, Encoding)
    ELSE LoggedAt([c EXCEPT !.local = store_metadata(@, role, Unversioned, signed_meta)],
                  current_depth, "local.store_metadata", role, Unversioned, "Ok")

\* Client::lookup_target_description: with i = 0 the function from its entry,
\* with i > 0 its loop over delegations.roles() from index i on, `targets`
\* then being the metadata that delegates; `parent_role` is the role of
\* `targets`
RECURSIVE lookup_target_description(_, _, _, _, _, _, _)

\* the loop body once tuf.update_delegation returned `updated`: on Ok the
\* metadata is stored and the walk descends into it, and only an error of a
\* terminating descent leaves the loop; on Err the loop is left if the
\* delegation is terminating.  A result with term = FALSE goes on with the
\* next delegation.
delegation_updated(updated, w, current_depth, delegation, signed_meta) ==
    IF updated.result \in Errors
    THEN Found(updated.c, delegation.terminating, updated.result)
    ELSE LET child == lookup_target_description(
                          store_delegation(updated.c, w, current_depth,
                                           delegation.role, signed_meta),
                          w, delegation.terminating, current_depth + 1,
                          get(updated.c.tuf.trusted_delegations, delegation.role),
                          delegation.role, 0)
         IN  Found(child.c, child.term /\ child.res \in ClientErrors, child.res)

\* a loop body that goes on with the next delegation whenever the metadata
\* of the role cannot be fetched, terminating or not
delegation_fetched_lenient(fetched, w, current_depth, parent_role, delegation) ==
    IF is_none(fetched.result)
    THEN Found(fetched.c, FALSE, NotFound)
    ELSE delegation_updated(
             tuf_update_delegation(fetched.c, w, current_depth, parent_role,
                                   delegation.role, unwrap(fetched.result)),
             w, current_depth, delegation, unwrap(fetched.result))

\* the loop body once the metadata of the role was looked for in the local
\* repository and the remote
delegation_fetched(fetched, w, current_depth, parent_role, delegation) ==
    IF is_none(fetched.result)
    THEN Found(fetched.c, delegation.terminating, NotFound)
    ELSE delegation_updated(
             tuf_update_delegation(fetched.c, w, current_depth, parent_role,
                                   delegation.role, unwrap(fetched.result)),
             w, current_depth, delegation, unwrap(fetched.result))

\* the loop body for one delegation
delegation_visited(c, w, current_depth, parent_role, delegation) ==
    IF ~\E p \in delegation.paths : is_child(w.target, p)
    THEN Found(c, delegation.terminating, NotFound)
    ELSE IF is_none(get(w.snapshot.meta, delegation.role))
    THEN Found(c, delegation.terminating, NotFound)
    ELSE delegation_fetched(fetch_delegation(c, w, current_depth, delegation.role),
                            w, current_depth, parent_role, delegation)

\* the loop after the body for delegation i: a return, or the next delegation
delegations_from(visited, w, default_terminate, current_depth, targets, parent_role, i) ==
    IF visited.term
    THEN Found(visited.c, TRUE, visited.res)
    ELSE lookup_target_description(visited.c, w, default_terminate, current_depth,
                                   targets, parent_role, i + 1)

\* the function from its entry, `targets` being the metadata it looks in
target_looked_up(c, w, default_terminate, current_depth, targets, parent_role) ==
    IF is_none(targets)
    THEN Found(c, default_terminate, MissingMetadata("Targets"))
    ELSE IF is_some(get(unwrap(targets).targets, w.target))
    THEN Found(c, default_terminate, OkDescription(unwrap(targets).targets[w.target]))
    ELSE IF is_none(unwrap(targets).delegations)
    THEN Found(c, default_terminate, NotFound)
    ELSE lookup_target_description(c, w, default_terminate, current_depth,
                                   targets, parent_role, 1)

\* a lookup_target_description that lets the walk go one level deeper than
\* max_delegation_depth
lookup_target_description_deeper(c, w, default_terminate, current_depth, targets, parent_role, i) ==
    IF i = 0
    THEN IF current_depth > w.config.max_delegation_depth + 1
         THEN Found(c, default_terminate, NotFound)
         ELSE target_looked_up(c, w, default_terminate, current_depth,
                               IF is_some(targets) THEN targets
                               ELSE c.tuf.trusted_targets,
                               parent_role)
    ELSE IF i > Len(unwrap(unwrap(targets).delegations).roles)
    THEN Found(c, default_terminate, NotFound)
    ELSE delegations_from(
             delegation_visited(c, w, current_depth, parent_role,
                                unwrap(unwrap(targets).delegations).roles[i]),
             w, default_terminate, current_depth, targets, parent_role, i)

lookup_target_description(c, w, default_terminate, current_depth, targets, parent_role, i) ==
    IF i = 0
    THEN IF current_depth > w.config.max_delegation_depth
         THEN Found(c, default_terminate, NotFound)
         ELSE target_looked_up(c, w, default_terminate, current_depth,
                               IF is_some(targets) THEN targets
                               ELSE c.tuf.trusted_targets,
                               parent_role)
    ELSE IF i > Len(unwrap(unwrap(targets).delegations).roles)
    THEN Found(c, default_terminate, NotFound)
    ELSE delegations_from(
             delegation_visited(c, w, current_depth, parent_role,
                                unwrap(unwrap(targets).delegations).roles[i]),
             w, default_terminate, current_depth, targets, parent_role, i)

\* Client::_fetch_target
client_fetch_target_(c, remote, config, target, n, failing) ==
    LET virt == real_to_virtual(target)
        snapshot == c.tuf.trusted_snapshot
        found == lookup_target_description(
                     c, Walk(remote, config, virt.value, unwrap(snapshot), n, failing),
                     FALSE, 0, None, TargetsPath, 0)
        read == fetch_target(remote, target)
    IN  IF virt.result = IllegalArgument
        THEN Done(c, IllegalArgument)
        ELSE IF is_none(snapshot)
        THEN Done(c, MissingMetadata("Snapshot"))
        ELSE IF found.res \in ClientErrors
        THEN Done(found.c, found.res)
        ELSE Done(LoggedAt(found.c, 0, "remote.fetch_target", path_value(target),
                           Unversioned, IF is_some(read) THEN "Ok" ELSE NotFound),
                  IF is_some(read) THEN "Ok(read)" ELSE NotFound)

\* Client::fetch_target
client_fetch_target(c, remote, config, target, n, failing) ==
    LET r == client_fetch_target_(c, remote, config, target, n, failing)
        stored == <<path_value(target), Unversioned>> \notin failing
    IN  IF r.result \in ClientErrors \cup {IllegalArgument}
        THEN r
        ELSE Done(LoggedAt([r.c EXCEPT !.local =
                               IF stored
                               THEN store_target(@, target, unwrap(fetch_target(remote, target)))
                               ELSE @],
                           0, "local.store_target", path_value(target), Unversioned,
                           IF stored THEN "Ok" ELSE Encoding),
                  IF stored THEN "Ok(())" ELSE Encoding)


----------------------------------------------------------------------------
(* The clients that fetch d/f: the trust store was filled by a round of     *)
(* updates from a root with the key K0 and targets that delegate to the     *)
(* roles A and B, whose metadata is signed by K1.                           *)

PathE == <<"e", "/">>

\* the snapshot describes the targets, A, and B or not
FetchSnapshots ==
    {[version |-> 1, expires |-> MaxTime + 1,
      meta |-> [p \in {TargetsPath, "A"} \cup described |-> MetadataDescription(1)]] :
        described \in {{}, {"B"}}}

FetchDelegation(role, terminating, paths) == Delegation(role, terminating, 1, {"K1"}, paths)

\* the top-level targets list d/f and delegate to nobody, or list nothing and
\* delegate to nobody or to A and then B, each terminating or not, A for d/
\* or for e/
FetchTargets ==
    {[version |-> 1, expires |-> MaxTime + 1, targets |-> (PathDF :> "x"),
      delegations |-> None]}
    \cup
    {[version |-> 1, expires |-> MaxTime + 1, targets |-> EmptyMap, delegations |-> d] :
        d \in {None} \cup
              {Some(Delegations({"K1"}, <<FetchDelegation("A", ta, {pa}),
                                           FetchDelegation("B", tb, {PathD})>>)) :
                  ta \in BOOLEAN, tb \in BOOLEAN, pa \in {PathD, PathE}}}

\* the metadata of a delegated role, signed by one of `signed_by`: it lists
\* d/f or nothing and delegates d/ to nobody or to one of `to`
FetchDelegated(role, to, signed_by, terminatings) ==
    {Raw(signatures,
         [version |-> 1, expires |-> MaxTime + 1,
          targets |-> IF listed THEN (PathDF :> role) ELSE EmptyMap,
          delegations |-> IF next = "" THEN None
                          ELSE Some(Delegations({"K1"},
                                       <<FetchDelegation(next, terminating, {PathD})>>))]) :
        signatures \in signed_by, listed \in BOOLEAN,
        next \in {""} \cup to, terminating \in terminatings}

\* A, signed by K1 or by nobody, delegates to B or to itself; B, signed by
\* K1, delegates to A: the graphs have chains of two levels and cycles
FetchRemotes ==
    { LET metadata == Put(Put(EmptyMap, "A", Unversioned, a), "B", Unversioned, b)
      IN  IF served THEN store_target(metadata, PathDF, "bytes") ELSE metadata :
        a \in {None} \cup {Some(m) : m \in FetchDelegated("A", {"A", "B"}, {{"K1"}, {}}, BOOLEAN)},
        b \in {None} \cup {Some(m) : m \in FetchDelegated("B", {"A"}, {{"K1"}}, {FALSE})},
        served \in BOOLEAN }

\* the local repository is empty or has a copy of A that lists d/f
FetchLocals ==
    {EmptyMap,
     store_metadata(EmptyMap, "A", Unversioned,
                    Raw({"K1"}, [version |-> 1, expires |-> MaxTime + 1,
                                 targets |-> (PathDF :> "A"), delegations |-> None]))}

\* the trust store after a round of updates
Updated(snapshot, targets) ==
    LET t0 == unwrap(from_trusted_root(Raw({"K0"}, WalkRoot(MaxTime + 1))))
        t1 == update_timestamp(t0, Raw({"K0"}, WalkTimestamp), 0).tuf
        t2 == update_snapshot(t1, Raw({"K0"}, snapshot), 0).tuf
    IN  update_targets(t2, Raw({"K0"}, targets), 0).tuf

\* the local repository fails to store nothing, or everything
FetchStoreFailures ==
    {{}, {<<"A", Unversioned>>, <<"B", Unversioned>>, <<path_value(PathDF), Unversioned>>}}

InitFetch ==
    /\ promoted_snapshot = 0
    /\ tuf \in {unwrap(from_trusted_root(Raw({"K0"}, WalkRoot(MaxTime + 1))))}
                 \cup {Updated(snapshot, targets) :
                          snapshot \in FetchSnapshots, targets \in FetchTargets}
    /\ now = 0
    /\ pc = "idle"
    /\ call = NoCall
    /\ pre = tuf
    /\ VerifyIdle
    /\ MetadataIdle
    /\ \E remote \in FetchRemotes, local \in FetchLocals, depth \in 0..MaxDelegationDepth :
          client = [NoClient EXCEPT !.pc = "ready", !.remote = remote, !.local = local,
                                    !.config = [max_delegation_depth |-> depth],
                                    !.target = PathDF]

\* Client::fetch_target
ClientFetchTarget ==
    /\ client.pc \in {"ready", "done"}
    /\ \E failing \in FetchStoreFailures :
          LET r == client_fetch_target([Cl EXCEPT !.events = <<>>], client.remote,
                                       client.config, client.target, now, failing)
          IN  /\ tuf' = r.c.tuf
              /\ client' = [client EXCEPT !.pc = "done", !.local = r.c.local,
                                          !.events = r.c.events, !.at = now,
                                          !.result = r.result]
    /\ pre' = tuf
    /\ UNCHANGED <<now, pc, call, v_sigs, v_threshold, v_keys, v_result, metadataVars, promoted_snapshot>>

NextFetch == ClientFetchTarget

SpecFetch == InitFetch /\ [][NextFetch]_vars


----------------------------------------------------------------------------
(* C21 *)

\* fetch_target has returned
FetchReturned == client.pc = "done"

\* the walk made the call `op` on `role` with `result`
Walked(op, role, result) ==
    \E i \in 1..Len(client.events) :
        /\ client.events[i].op = op
        /\ client.events[i].path = role
        /\ client.events[i].result = result

\* `role` is delegated the target by `targets` and described by the snapshot
Delegated(targets, role) ==
    /\ is_some(targets.delegations)
    /\ \E i \in 1..Len(unwrap(targets.delegations).roles) :
          LET delegation == unwrap(targets.delegations).roles[i]
          IN  /\ delegation.role = role
              /\ \E p \in delegation.paths : is_child(client.target, p)
              /\ \A j \in 1..(i - 1) :
                    ~unwrap(targets.delegations).roles[j].terminating
    /\ is_some(get(unwrap(pre.trusted_snapshot).meta, role))

\* the copies of the metadata of `role`: the one of the remote and the one
\* of the local repository
Copies(role) ==
    {unwrap(o) : o \in {o \in {fetch_metadata(client.remote, role, Unversioned),
                               fetch_metadata(client.local, role, Unversioned)} :
                           is_some(o)}}

\* the remote has the metadata of `role`, and every copy of it is signed by
\* the key of the delegation
Available(role) ==
    /\ is_some(fetch_metadata(client.remote, role, Unversioned))
    /\ \A m \in Copies(role) : verify_signatures(m, 1, {"K1"})

\* the trust store had root, snapshot and targets, and the targets did not
\* list the target
NotListedAtTop ==
    /\ FetchReturned
    /\ is_some(pre.trusted_snapshot)
    /\ is_some(pre.trusted_targets)
    /\ is_none(get(unwrap(pre.trusted_targets).targets, client.target))

\* the target is listed only by the role A, which the top-level targets
\* delegate to, within the depth allowed
ListedByDelegatedRole ==
    /\ NotListedAtTop
    /\ client.config.max_delegation_depth >= 1
    /\ Delegated(unwrap(pre.trusted_targets), "A")
    /\ Available("A")
    /\ \A m \in Copies("A") : is_some(get(m.metadata.targets, client.target))

\* the target is listed only by the role B, which A delegates to, which the
\* top-level targets delegate to
ListedByChain ==
    /\ NotListedAtTop
    /\ client.config.max_delegation_depth >= 2
    /\ Delegated(unwrap(pre.trusted_targets), "A")
    /\ Available("A")
    /\ \A m \in Copies("A") :
          /\ is_none(get(m.metadata.targets, client.target))
          /\ Delegated(m.metadata, "B")
    /\ Available("B")
    /\ \A m \in Copies("B") : is_some(get(m.metadata.targets, client.target))

\* the remote was asked for the bytes of the target
TargetFetched == Walked("remote.fetch_target", path_value(client.target), "Ok")

\* C21: when the target is listed only in a delegated role reachable from the
\* top-level targets, directly or through a chain of two levels, and the
\* remote serves it, fetch_target finds its description and fetches the
\* bytes of the target from the remote
C21_DelegatedTargetFetched ==
    ((ListedByDelegatedRole \/ ListedByChain)
        /\ is_some(fetch_target(client.remote, client.target)))
    => TargetFetched

\* the walk descended into A, which lists the target, and fetch_target
\* returned NotFound all the same
C21_DelegatedTargetNotFound ==
    /\ ListedByDelegatedRole
    /\ is_some(fetch_target(client.remote, client.target))
    /\ Walked("tuf.update_delegation", "A", OkTrue)
    /\ client.result = NotFound
    /\ ~TargetFetched

\* a target the top-level targets list is fetched
C21_ListedTargetFetched ==
    /\ FetchReturned
    /\ is_some(pre.trusted_targets)
    /\ is_some(get(unwrap(pre.trusted_targets).targets, client.target))
    /\ TargetFetched
    /\ client.result = "Ok(())"


----------------------------------------------------------------------------
(* C29 *)

\* the k-th call of the walk is a fetch from the remote or a verification by
\* the trust store that failed
FailedAt(k) ==
    \/ /\ client.events[k].op = "remote.fetch_metadata"
       /\ client.events[k].result = NotFound
    \/ /\ client.events[k].op = "tuf.update_delegation"
       /\ client.events[k].result \in Errors

\* the role whose metadata the walk was in at its k-th call: the top-level
\* targets at depth 0, below it the role the walk descended into last
ParentAt(k) ==
    IF client.events[k].depth = 0 THEN TargetsPath
    ELSE LET descents == {j \in 1..(k - 1) :
                             /\ client.events[j].op = "tuf.update_delegation"
                             /\ client.events[j].depth = client.events[k].depth - 1
                             /\ client.events[j].result \notin Errors}
         IN  client.events[CHOOSE j \in descents : \A h \in descents : h <= j].path

\* the delegations the walk was iterating at its k-th call
DelegationsAt(k) ==
    IF ParentAt(k) = TargetsPath
    THEN unwrap(unwrap(pre.trusted_targets).delegations).roles
    ELSE unwrap(tuf.trusted_delegations[ParentAt(k)].delegations).roles

\* the index of the delegation the k-th call was made for
IndexAt(k) ==
    CHOOSE i \in 1..Len(DelegationsAt(k)) :
        DelegationsAt(k)[i].role = client.events[k].path

\* the walk looks for the metadata of `delegation`: its paths cover the
\* target and the snapshot describes its role
LookedFor(delegation) ==
    /\ \E p \in delegation.paths : is_child(client.target, p)
    /\ is_some(get(unwrap(pre.trusted_snapshot).meta, delegation.role))

\* the walk ended at its k-th call with the error of that call
EndedAt(k) ==
    /\ k = Len(client.events)
    /\ client.result = client.events[k].result

\* after its k-th call the walk went on with the sibling of the delegation
\* the call was made for, if there is one it looks for
WentOnAfter(k) ==
    (IndexAt(k) < Len(DelegationsAt(k)) /\ LookedFor(DelegationsAt(k)[IndexAt(k) + 1]))
    => /\ k < Len(client.events)
       /\ client.events[k + 1] =
              EventAt(client.events[k].depth, "local.fetch_metadata",
                      DelegationsAt(k)[IndexAt(k) + 1].role, Unversioned,
                      client.events[k + 1].result)

\* the first delegation of the top-level targets does not cover the target
FirstNotCovering ==
    /\ NotListedAtTop
    /\ is_some(unwrap(pre.trusted_targets).delegations)
    /\ ~\E p \in unwrap(unwrap(pre.trusted_targets).delegations).roles[1].paths :
            is_child(client.target, p)

\* no call was made for the first delegation, and the walk went on with the
\* second if it looks for it
FirstSkipped ==
    LET roles == unwrap(unwrap(pre.trusted_targets).delegations).roles
    IN  /\ \A k \in 1..Len(client.events) :
              client.events[k].depth = 0 => client.events[k].path # roles[1].role
        /\ LookedFor(roles[2]) =>
              /\ client.events # <<>>
              /\ client.events[1].op = "local.fetch_metadata"
              /\ client.events[1].path = roles[2].role

\* C29: when the fetch or the verification of the metadata of a delegated
\* role fails, the walk goes on with the next sibling if the delegation is
\* not terminating and ends at once with the error if it is; a delegation
\* whose paths do not cover the target is skipped if it is not terminating
\* and ends the walk with NotFound if it is
C29_DelegationWalkErrorPolicy ==
    /\ \A k \in 1..Len(client.events) :
          (FetchReturned /\ FailedAt(k)) =>
              IF DelegationsAt(k)[IndexAt(k)].terminating
              THEN EndedAt(k)
              ELSE WentOnAfter(k)
    /\ FirstNotCovering =>
          IF unwrap(unwrap(pre.trusted_targets).delegations).roles[1].terminating
          THEN client.events = <<>> /\ client.result = NotFound
          ELSE FirstSkipped

\* the verification of A, not terminating, failed and the walk went on with B
C29_Witness ==
    /\ FetchReturned
    /\ Len(client.events) >= 4
    /\ client.events[3].op = "tuf.update_delegation"
    /\ client.events[3].path = "A"
    /\ client.events[3].depth = 0
    /\ client.events[3].result = VerificationFailure
    /\ ~DelegationsAt(3)[IndexAt(3)].terminating
    /\ client.events[4].op = "local.fetch_metadata"
    /\ client.events[4].path = "B"

\* the fetch of B, terminating and delegated by A, failed one level down and
\* ended the walk
C29_TerminatingEnds ==
    /\ FetchReturned
    /\ \E k \in 1..Len(client.events) :
          /\ FailedAt(k)
          /\ client.events[k].depth = 1
          /\ client.events[k].op = "remote.fetch_metadata"
          /\ DelegationsAt(k)[IndexAt(k)].terminating
          /\ EndedAt(k)

\* A, not covering the target and not terminating, was skipped for B
C29_Skipped ==
    /\ FirstNotCovering
    /\ ~unwrap(unwrap(pre.trusted_targets).delegations).roles[1].terminating
    /\ client.events # <<>>
    /\ client.events[1].path = "B"


----------------------------------------------------------------------------
(* C30 *)

\* every call of the walk was made at a depth within max_delegation_depth
WithinDepth ==
    \A k \in 1..Len(client.events) :
        client.events[k].depth <= client.config.max_delegation_depth

\* the walk made a bounded number of calls: at each depth it visits at most
\* two delegations (the two of the top-level targets, or the one of each of
\* them), a visit makes at most four calls (two fetches, the verification,
\* the store), and fetch_target adds the fetch and the store of the target
BoundedCalls ==
    Len(client.events) <= 4 * 2 * (client.config.max_delegation_depth + 1) + 2

\* the metadata a nested call of the walk may be given
TrustedDelegations ==
    {None} \cup {Some(tuf.trusted_delegations[role]) : role \in DOMAIN tuf.trusted_delegations}

\* a call entered beyond max_delegation_depth returns NotFound and leaves the
\* client as it is
BeyondDepthNotFound ==
    is_some(tuf.trusted_snapshot) =>
        \A default_terminate \in BOOLEAN, targets \in TrustedDelegations,
           parent_role \in {TargetsPath, "A", "B"} :
            lookup_target_description(
                Cl, Walk(client.remote, client.config, client.target,
                         unwrap(tuf.trusted_snapshot), now, {}),
                default_terminate, client.config.max_delegation_depth + 1,
                targets, parent_role, 0)
            = Found(Cl, default_terminate, NotFound)

\* C30: the walk of Client::lookup_target_description ends for every graph of
\* delegations, cyclic ones included, having made a bounded number of calls
\* and none at a recursion depth above max_delegation_depth; a call entered
\* with current_depth above max_delegation_depth returns NotFound without a
\* fetch and without a change of the trust store
C30_BoundedDelegationWalk ==
    /\ WithinDepth
    /\ BoundedCalls
    /\ BeyondDepthNotFound

\* A delegates to itself, and the walk followed the cycle down to
\* max_delegation_depth and returned
C30_Witness ==
    /\ FetchReturned
    /\ client.config.max_delegation_depth = MaxDelegationDepth
    /\ \E k \in 1..Len(client.events) :
          /\ client.events[k].depth = MaxDelegationDepth
          /\ client.events[k].op = "tuf.update_delegation"
          /\ client.events[k].path = "A"
          /\ ParentAt(k) = "A"
    /\ client.result = NotFound


----------------------------------------------------------------------------
(* C31 *)

\* the metadata of the parent role of the last call, as trusted before it
ParentOfCall == TrustedParent(pre, call.parent_role)

\* the delegations of the trusted parent that name the role of the last call
EntriesOfRole ==
    IF is_none(ParentOfCall) THEN {}
    ELSE IF is_none(unwrap(ParentOfCall).delegations) THEN {}
    ELSE LET roles == unwrap(unwrap(ParentOfCall).delegations).roles
         IN  {roles[i] : i \in {j \in 1..Len(roles) : roles[j].role = call.role}}

\* the candidate is signed by a threshold of the keys of the parent's
\* delegations that a delegation naming the role lists
AuthorizedByEntry ==
    \E entry \in EntriesOfRole :
        SignedByThreshold(call.arg, entry,
                          unwrap(unwrap(ParentOfCall).delegations).keys)

\* the candidate is signed by a key of the parent's delegations that the
\* delegation naming the role does not list, and by no other
SignedByUnlistedKey ==
    /\ EntriesOfRole # {}
    /\ call.arg.signatures # {}
    /\ call.arg.signatures \subseteq unwrap(unwrap(ParentOfCall).delegations).keys
    /\ \A entry \in EntriesOfRole : call.arg.signatures \cap entry.key_ids = {}

DelegationPromoted ==
    /\ Called("update_delegation")
    /\ tuf.trusted_delegations # pre.trusted_delegations

\* C31 as stated: update_delegation promotes the candidate only if the role
\* is a delegation of the trusted parent and the candidate is signed by that
\* delegation's threshold of the keys it lists; a candidate signed by a key of
\* the parent's delegations that the delegation does not list, or a role or
\* parent that is not found, is rejected with VerificationFailure
C31_DelegationAuthorized ==
    /\ DelegationPromoted => AuthorizedByEntry
    /\ (Called("update_delegation") /\ (SignedByUnlistedKey \/ EntriesOfRole = {}))
          => call.result = VerificationFailure

\* C31, amended: the candidate is promoted only if authorized as stated; a
\* candidate signed by an unlisted key or a role or parent that is not found
\* is rejected and the trust store is left as it was; the error is
\* VerificationFailure when root, snapshot and targets are trusted and not
\* expired, and the error of that check otherwise
C31_DelegationAuthorizedOnceChecked ==
    /\ DelegationPromoted => AuthorizedByEntry
    /\ (Called("update_delegation") /\ (SignedByUnlistedKey \/ EntriesOfRole = {}))
          => /\ call.result \in Errors
             /\ tuf = pre
             /\ (~RootExpired /\ Unexpired(pre.trusted_snapshot)
                     /\ Unexpired(pre.trusted_targets))
                   => call.result = VerificationFailure

\* a candidate for A signed by K0, a key of the delegations of the targets
\* that the delegation of A does not list, is rejected
C31_Witness ==
    /\ Called("update_delegation")
    /\ call.parent_role = TargetsPath
    /\ SignedByUnlistedKey
    /\ ~RootExpired
    /\ Unexpired(pre.trusted_snapshot)
    /\ Unexpired(pre.trusted_targets)
    /\ call.result = VerificationFailure

\* a candidate for B signed by K1 is rejected when the trusted parent A does
\* not delegate to B
C31_RoleNotFound ==
    /\ Called("update_delegation")
    /\ call.parent_role = "A"
    /\ call.role = "B"
    /\ is_some(ParentOfCall)
    /\ EntriesOfRole = {}
    /\ call.arg.signatures = {"K1"}
    /\ call.result = VerificationFailure

\* an authorized candidate is promoted
C31_PromotedByListedKey == DelegationPromoted /\ AuthorizedByEntry


----------------------------------------------------------------------------
(* Tuf::from_root_with_trusted_keys over roots whose root role, key map and
   signatures vary independently of the threshold and the keys supplied *)

\* the root roles RoleDefinition::new accepts over KeyIds
PinnedRootRoles ==
    {RoleDefinition(threshold, key_ids) :
        <<threshold, key_ids>> \in
            {tk \in (1..Cardinality(KeyIds)) \X (SUBSET KeyIds) :
                Cardinality(tk[2]) >= tk[1]}}

\* version 1 roots: `keys` need not hold the keys the root role lists
PinnedRoots ==
    {[version |-> 1, expires |-> MaxTime + 1, keys |-> keys, root |-> root,
      snapshot |-> RoleDefinition(1, {"K0"}), targets |-> RoleDefinition(1, {"K0"}),
      timestamp |-> RoleDefinition(1, {"K0"})] :
        keys \in SUBSET KeyIds, root \in PinnedRootRoles}

InitPinned ==
    /\ TufIdle
    /\ VerifyIdle
    /\ MetadataIdle

\* Tuf::from_root_with_trusted_keys(raw_root, root_threshold, root_keys)
FromRootWithTrustedKeys ==
    /\ pc = "idle"
    /\ \E root \in PinnedRoots, signatures \in SUBSET KeyIds,
          root_threshold \in 0..Cardinality(KeyIds), keys \in SUBSET KeyIds :
          LET raw_root == Raw(signatures, root)
              r == from_root_with_trusted_keys(raw_root, root_threshold, keys)
          IN  /\ tuf' = IF is_some(r) THEN unwrap(r) ELSE None
              /\ call' = Call("from_root_with_trusted_keys",
                              [raw_root |-> raw_root, root_threshold |-> root_threshold,
                               root_keys |-> keys],
                              "", "", IF is_some(r) THEN "Ok" ELSE VerificationFailure)
    /\ pc' = "returned"
    /\ pre' = tuf
    /\ UNCHANGED <<now, v_sigs, v_threshold, v_keys, v_result, client, metadataVars, promoted_snapshot>>

NextPinned ==
    \/ FromRootWithTrustedKeys
    \/ Return

SpecPinned == InitPinned /\ [][NextPinned]_vars

(* C32 *)

\* the signed root meets the threshold supplied over the keys supplied
MeetsSupplied ==
    /\ call.arg.root_threshold >= 1
    /\ Cardinality(call.arg.raw_root.signatures \cap call.arg.root_keys)
          >= call.arg.root_threshold

\* the signed root meets the threshold of its own root role over the keys
\* of its key map that the root role lists
MeetsOwn ==
    LET root == call.arg.raw_root.metadata
    IN  Cardinality(call.arg.raw_root.signatures \cap root.keys \cap root.root.key_ids)
            >= root.root.threshold

\* C32: from_root_with_trusted_keys succeeds only if the signed root meets
\* the supplied threshold over the supplied keys and its own root threshold
\* over its own root keys; when either fails no trust store is produced; the
\* store of a success trusts the root only: no timestamp, snapshot or
\* targets, and no delegations
C32_PinnedConstruction ==
    Called("from_root_with_trusted_keys") =>
        /\ call.result = "Ok" => MeetsSupplied /\ MeetsOwn
        /\ ~(MeetsSupplied /\ MeetsOwn) => call.result \in Errors /\ tuf = None
        /\ call.result = "Ok" =>
              /\ tuf.trusted_root = call.arg.raw_root.metadata
              /\ is_none(tuf.trusted_timestamp)
              /\ is_none(tuf.trusted_snapshot)
              /\ is_none(tuf.trusted_targets)
              /\ tuf.trusted_delegations = EmptyMap

\* the supplied keys signed the root but the root did not sign itself: no
\* trust store
C32_Witness ==
    /\ Called("from_root_with_trusted_keys")
    /\ MeetsSupplied
    /\ ~MeetsOwn
    /\ tuf = None

\* a root that signed itself is trusted through a supplied key that its own
\* key map does not hold
C32_PinnedByForeignKey ==
    /\ Called("from_root_with_trusted_keys")
    /\ call.result = "Ok"
    /\ call.arg.root_keys \cap call.arg.raw_root.metadata.keys = {}
    /\ tuf.trusted_root = call.arg.raw_root.metadata


----------------------------------------------------------------------------
(* VirtualTargetPath::matches_chain over chains of groups of paths *)

\* the longest chain of groups
MaxChain == 3

\* a directory, a file and two directories under it, and a directory apart
ChainPaths ==
    {<<"f", "/">>, <<"f", "/", "b">>, <<"f", "/", "b", "/">>, <<"f", "/", "q", "/">>,
     <<"z", "/">>}

\* the groups: at most two paths each
ChainGroups == {group \in SUBSET ChainPaths : Cardinality(group) <= 2}

Chains == UNION {[1..len -> ChainGroups] : len \in 0..MaxChain}

InitChain ==
    /\ TufIdle
    /\ VerifyIdle
    /\ signed = None
    /\ m_arg \in [self : ChainPaths, parents : Chains]
    /\ m_ret = None

\* self.matches_chain(parents)
MatchesChain ==
    /\ m_ret = None
    /\ m_ret' = Some(matches_chain(m_arg.self, m_arg.parents))
    /\ UNCHANGED <<tufVars, verifyVars, client, signed, m_arg, promoted_snapshot>>

NextChain == MatchesChain

SpecChain == InitChain /\ [][NextChain]_vars

(* C33 *)

\* `path` is equal to or a child of some element of `group`
CoveredBy(path, group) == \E p \in group : path = p \/ is_child(path, p)

\* group i of the chain, filtered to the elements that are equal to or a
\* child of some element of the preceding filtered group
RECURSIVE FilteredGroup(_, _)
FilteredGroup(parents, i) ==
    IF i = 1
    THEN parents[1]
    ELSE {path \in parents[i] : CoveredBy(path, FilteredGroup(parents, i - 1))}

\* C33: matches_chain is true exactly when the target is equal to or a
\* child of some element of the last filtered group, each group being
\* filtered to the elements equal to or a child of some element of the
\* preceding filtered group; it is false for the empty chain and whenever a
\* group is or becomes empty
C33_MatchesChain ==
    is_some(m_ret) =>
        LET parents == m_arg.parents
        IN  /\ unwrap(m_ret)
                  = (/\ Len(parents) > 0
                     /\ CoveredBy(m_arg.self, FilteredGroup(parents, Len(parents))))
            /\ Len(parents) = 0 => ~unwrap(m_ret)
            /\ (\E i \in 1..Len(parents) : FilteredGroup(parents, i) = {})
                  => ~unwrap(m_ret)

\* f/b is in the last group, yet the group before it holds nothing under
\* which it lies once filtered: the last group becomes empty
C33_Witness ==
    /\ is_some(m_ret)
    /\ m_arg.self = <<"f", "/", "b">>
    /\ m_arg.parents = << {<<"f", "/">>}, {<<"f", "/", "q", "/">>}, {<<"f", "/", "b">>} >>
    /\ ~unwrap(m_ret)

\* a target nested under a chain of three groups
C33_Nested ==
    /\ is_some(m_ret)
    /\ Len(m_arg.parents) = 3
    /\ m_arg.parents[1] # m_arg.parents[2]
    /\ m_arg.parents[2] # m_arg.parents[3]
    /\ unwrap(m_ret)


----------------------------------------------------------------------------
(* C34 *)

\* C34: in every state of the trust store, a trusted snapshot comes with a
\* trusted timestamp, and its version is the snapshot version that
\* timestamp declares
C34_SnapshotAsTimestampDeclares ==
    is_some(tuf.trusted_snapshot) =>
        /\ is_some(tuf.trusted_timestamp)
        /\ unwrap(tuf.trusted_snapshot).version
              = unwrap(tuf.trusted_timestamp).snapshot.version

\* a new timestamp that declares the version of the trusted snapshot is
\* promoted and the snapshot stays trusted
C34_Witness ==
    /\ Called("update_timestamp")
    /\ call.result = OkSome
    /\ is_some(pre.trusted_snapshot)
    /\ tuf.trusted_snapshot = pre.trusted_snapshot
    /\ tuf.trusted_timestamp # pre.trusted_timestamp

\* a new timestamp that declares another version makes the store forget the
\* trusted snapshot
C34_SnapshotForgotten ==
    /\ Called("update_timestamp")
    /\ is_some(pre.trusted_snapshot)
    /\ is_none(tuf.trusted_snapshot)
    /\ Candidate.snapshot.version # unwrap(pre.trusted_snapshot).version

(* C35 *)

\* C35: in every state of the trust store that trusts a snapshot and
\* targets, the snapshot has an entry for "targets" and the version of the
\* trusted targets is the version that entry declares
C35_TargetsAsSnapshotDeclares ==
    (is_some(tuf.trusted_snapshot) /\ is_some(tuf.trusted_targets)) =>
        /\ TargetsPath \in DOMAIN unwrap(tuf.trusted_snapshot).meta
        /\ unwrap(tuf.trusted_targets).version
              = unwrap(tuf.trusted_snapshot).meta[TargetsPath].version


\* a new snapshot that declares the version of the trusted targets is
\* promoted and the targets stay trusted
C35_Witness ==
    /\ Called("update_snapshot")
    /\ call.result = OkTrue
    /\ is_some(pre.trusted_targets)
    /\ tuf.trusted_targets = pre.trusted_targets
    /\ tuf.trusted_snapshot # pre.trusted_snapshot

\* a new snapshot that declares another version for the targets, or none,
\* makes the store forget the trusted targets
C35_TargetsForgotten ==
    /\ Called("update_snapshot")
    /\ call.result = OkTrue
    /\ is_some(pre.trusted_targets)
    /\ is_none(tuf.trusted_targets)


------------------------------------------------------------


----------------------------------------------------------------------------
(* Sequences of root, timestamp and snapshot updates, with the history of
   the snapshots promoted *)

\* a call returned `r`; promoted_snapshot becomes `promoted`
ReturnedInSequence(op, arg, r, promoted) ==
    /\ tuf' = r.tuf
    /\ call' = Call(op, arg, "", "", r.result)
    /\ pre' = tuf
    /\ pc' = "returned"
    /\ promoted_snapshot' = promoted
    /\ UNCHANGED <<now, v_sigs, v_threshold, v_keys, v_result, client, metadataVars>>

\* Tuf::update_root; a root that is accepted starts the history anew
UpdateRootInSequence ==
    /\ pc = "idle"
    /\ \E raw \in Signed(Roots) :
          LET r == update_root(tuf, raw)
          IN  ReturnedInSequence("update_root", raw, r,
                                 IF r.result = OkTrue THEN 0 ELSE promoted_snapshot)

\* Tuf::update_timestamp
UpdateTimestampInSequence ==
    /\ pc = "idle"
    /\ \E raw \in SignedByOne(Timestamps) :
          ReturnedInSequence("update_timestamp", raw, update_timestamp(tuf, raw, now),
                             promoted_snapshot)

\* Tuf::update_snapshot; the version of a snapshot that is promoted enters
\* the history
UpdateSnapshotInSequence ==
    /\ pc = "idle"
    /\ \E raw \in SignedByOne(Snapshots) :
          LET r == update_snapshot(tuf, raw, now)
          IN  ReturnedInSequence("update_snapshot", raw, r,
                                 IF r.tuf.trusted_snapshot # tuf.trusted_snapshot
                                       /\ raw.metadata.version > promoted_snapshot
                                 THEN raw.metadata.version
                                 ELSE promoted_snapshot)

NextSequence ==
    \/ UpdateRootInSequence
    \/ UpdateTimestampInSequence
    \/ UpdateSnapshotInSequence
    \/ Return
    \/ Tick

SpecSequence == Init /\ [][NextSequence]_vars

(* C36 *)

\* C36: with no successful root update in between, once a snapshot of
\* version v has been promoted no snapshot of a lower version is promoted
\* afterwards, also when newer correctly signed timestamps declare a lower
\* snapshot version
C36_NoSnapshotRollback ==
    (Called("update_snapshot") /\ Promoted) =>
        unwrap(tuf.trusted_snapshot).version >= promoted_snapshot


----------------------------------------------------------------------------
(* C37 *)

\* target_description returned the description that the trusted metadata of
\* the delegated role `role` lists for the target, the top-level targets
\* listing none
ReturnedFromDelegated(role) ==
    /\ Called("target_description")
    /\ ~IsErr(call.result)
    /\ is_none(get(unwrap(tuf.trusted_targets).targets, call.arg))
    /\ is_some(get(tuf.trusted_delegations, role))
    /\ is_some(get(tuf.trusted_delegations[role].targets, call.arg))
    /\ call.result = OkDescription(tuf.trusted_delegations[role].targets[call.arg])

\* C37: whenever target_description returns a description found in the
\* trusted metadata of a delegated role, the version of that metadata is the
\* version the trusted snapshot declares for the role: delegated metadata
\* left over from an earlier snapshot is never used
C37_DelegatedAsSnapshotDeclares ==
    \A role \in DelegRoles :
        ReturnedFromDelegated(role) =>
            /\ is_some(get(unwrap(tuf.trusted_snapshot).meta, role))
            /\ tuf.trusted_delegations[role].version
                  = unwrap(tuf.trusted_snapshot).meta[role].version


----------------------------------------------------------------------------
(* Tuf::target_description over delegations for d/ and for e/: the top-level
   targets delegate to A, A delegates to B or to nobody *)

RestrictedSnapshot ==
    [version |-> 1, expires |-> MaxTime + 1,
     meta |-> [p \in {TargetsPath, "A", "B"} |-> MetadataDescription(1)]]

\* the top-level targets list nothing and delegate d/ or e/ to A
RestrictedTargets ==
    {[version |-> 1, expires |-> MaxTime + 1, targets |-> EmptyMap,
      delegations |-> Some(Delegations({"K1"}, <<FetchDelegation("A", FALSE, {paths})>>))] :
        paths \in {PathD, PathE}}

\* the metadata of A lists d/f or nothing and delegates d/ or e/ to B, or to
\* nobody; the metadata of B lists d/f or nothing
RestrictedDelegated(role) ==
    {[version |-> 1, expires |-> MaxTime + 1,
      targets |-> IF listed THEN (PathDF :> role) ELSE EmptyMap,
      delegations |-> IF role = "B" \/ paths = <<>> THEN None
                      ELSE Some(Delegations({"K1"},
                                   <<FetchDelegation("B", FALSE, {paths})>>))] :
        listed \in BOOLEAN, paths \in {<<>>, PathD, PathE}}

InitRestricted ==
    /\ promoted_snapshot = 0
    /\ tuf \in {Updated(RestrictedSnapshot, targets) : targets \in RestrictedTargets}
    /\ now = 0
    /\ pc = "idle"
    /\ call = NoCall
    /\ pre = tuf
    /\ VerifyIdle
    /\ MetadataIdle
    /\ ClientIdle

\* Tuf::update_delegation(parent_role, role, raw_delegation)
RestrictedUpdateDelegation ==
    /\ pc = "idle"
    /\ \E parent_role \in {TargetsPath, "A"}, role \in WalkRoles :
          \E m \in RestrictedDelegated(role) :
              LET raw == Raw({"K1"}, m)
              IN  Returned("update_delegation", raw, parent_role, role,
                           update_delegation(tuf, parent_role, role, raw, now))

\* Tuf::target_description("d/f")
RestrictedTargetDescription ==
    /\ pc = "idle"
    /\ Returned("target_description", PathDF, "", "",
                target_description(tuf, PathDF, now))

NextRestricted ==
    \/ RestrictedUpdateDelegation
    \/ RestrictedTargetDescription
    \/ Return

SpecRestricted == InitRestricted /\ [][NextRestricted]_vars

(* C38 *)

\* the target of the last call is equal to or a child of one of the paths
\* of the delegation of `role` in the delegations of `parent`
EntryCovers(parent, role) ==
    /\ is_some(parent)
    /\ is_some(unwrap(parent).delegations)
    /\ \E i \in 1..Len(unwrap(unwrap(parent).delegations).roles) :
          LET entry == unwrap(unwrap(parent).delegations).roles[i]
          IN  entry.role = role /\ CoveredBy(call.arg, entry.paths)

\* every delegation on the chain from the top-level targets to `role`
\* covers the target: A is delegated to by the targets, B by A
ChainCovers(role) ==
    /\ EntryCovers(tuf.trusted_targets, "A")
    /\ role = "B" => EntryCovers(get(tuf.trusted_delegations, "A"), "B")

\* C38: target_description returns a description found in the metadata of a
\* delegated role only if the target path is equal to or a child of one of
\* the paths of every delegation on the chain from the top-level targets to
\* that role, the top-level delegation and the one that names the role
\* included; a target the role lists outside the paths delegated to it
\* yields TargetUnavailable
C38_DelegatedPathsRestrict ==
    \A role \in WalkRoles :
        /\ ReturnedFromDelegated(role) => ChainCovers(role)
        /\ (/\ Called("target_description")
            /\ \A r \in WalkRoles : ~ChainCovers(r))
              => call.result = TargetUnavailable


----------------------------------------------------------------------------
(* C39 *)

\* a step of a round returned Ok(false), as every step of the round before it
StepWithoutUpdate ==
    /\ client.pc \in {"root", "timestamp", "snapshot", "targets"}
    /\ Len(client'.steps) = Len(client.steps) + 1
    /\ \A i \in 1..Len(client'.steps) : client'.steps[i] = OkFalse

\* C39: a round of Client::update that returns Ok(false) changed nothing:
\* every step of such a round leaves the root, timestamp, snapshot, targets
\* and delegations of the trust store as they were and writes no metadata to
\* the local repository
C39_NoUpdateNoChange ==
    [][StepWithoutUpdate =>
          /\ tuf' = tuf
          /\ client'.local = client.local
          /\ \A i \in 1..Len(client'.events) :
                client'.events[i].op # "local.store_metadata"]_vars

\* a round returned Ok(false) on a store that trusts all four roles
C39_Witness ==
    /\ client.pc = "done"
    /\ client.result = OkFalse
    /\ is_some(tuf.trusted_targets)
    /\ Len(client.steps) = 4


----------------------------------------------------------------------------
(* C40 *)

\* the snapshot version the timestamp trusted before the last call declares
DeclaredSnapshotVersion == unwrap(pre.trusted_timestamp).snapshot.version

\* the candidate of the last update_snapshot is signed as the trusted root
\* requires of a snapshot
SnapshotSigned ==
    SignedByThreshold(call.arg, pre.trusted_root.snapshot, pre.trusted_root.keys)

\* the last update_snapshot came to its last version test: root and
\* timestamp are trusted and not expired, the declared version is above the
\* trusted snapshot's, the candidate is signed and has the declared version
ReachedRollbackCheck ==
    /\ Called("update_snapshot")
    /\ ~RootExpired
    /\ Unexpired(pre.trusted_timestamp)
    /\ ~(DeclaredSnapshotVersion < trusted_snapshot_version(pre))
    /\ DeclaredSnapshotVersion # trusted_snapshot_version(pre)
    /\ SnapshotSigned
    /\ Candidate.version = DeclaredSnapshotVersion

\* C40: the test of update_snapshot that the candidate is not older than
\* the trusted snapshot, placed after the comparison with the declared
\* version, never fails: whenever it is reached the candidate has the
\* version the timestamp declares, which is above the trusted snapshot's,
\* and the candidate is promoted; every VerificationFailure of
\* update_snapshot comes from one of the tests before it
C40_RollbackCheckNeverFails ==
    /\ ReachedRollbackCheck =>
          /\ Candidate.version > trusted_snapshot_version(pre)
          /\ call.result = OkTrue
          /\ tuf.trusted_snapshot = Some(Candidate)
    /\ (Called("update_snapshot") /\ call.result = VerificationFailure) =>
          \/ DeclaredSnapshotVersion < trusted_snapshot_version(pre)
          \/ ~SnapshotSigned
          \/ Candidate.version # DeclaredSnapshotVersion

\* a signed candidate of the declared version came to the test and passed
C40_Witness ==
    /\ ReachedRollbackCheck
    /\ Candidate.version > 1
    /\ call.result = OkTrue

====
